---- MODULE Spec2Model ----
(***************************************************************************)
(* Parametric floor generator (archipack_floor, src/__init__.py).          *)
(*                                                                         *)
(* Lengths are integers counted in units of 0.0001 m, the precision that   *)
(* round_tuple / round(.., 4) keep, so SLOP = 0.001 m is 10 units.  Real   *)
(* arithmetic is exact: a quotient stays a quotient until the code rounds  *)
(* it.  What the binary floating point of the code adds to that is left  *)
(* out, but for the column cursor of wood_regular (see Mesh): the rounding *)
(* error of other accumulated sums, the 32-bit components of               *)
(* mathutils.Vector, and the digits of cos, sin and sqrt beyond the fourth *)
(* (a length times such a factor is taken to the nearest unit).  Vertex    *)
(* indices in faces are 0-based as in the code; the buffers are sequences, *)
(* so index i names vs[i + 1].                                             *)
(***************************************************************************)
EXTENDS Integers, Sequences, FiniteSets, TLC

VARIABLES
    cfg,       \* the property values of the archipack_floor instance
    vs,        \* vertex buffer
    fs,        \* face buffer
    ms,        \* material-id buffer
    test_txt,  \* lines appended to 'D:/test.txt' by point_in_shape
    disk_ok,   \* whether open('D:/test.txt', 'a') succeeds on this host
    calls,     \* number of direct builder calls made so far
    passes,    \* number of update_data passes made so far
    last       \* record of the last operation: its arguments and the buffers before it

vars == <<cfg, vs, fs, ms, test_txt, disk_ok, calls, passes, last>>

-----------------------------------------------------------------------------
(* Constants of the program, in units of 0.0001 m.                         *)

FOOT == 3048
INCH == 254
SLOP == 10
\* the six comparison kinds, [i for i in range(6)]
EQUAL == 0
NOT_EQUAL == 1
LESS_EQUAL == 2
GREATER_EQUAL == 3
LESS == 4
GREATER == 5
\* math.isclose's default rel_tol is 1e-09; this is its inverse
REL_TOL_INV == 1000000000

-----------------------------------------------------------------------------
(* Arithmetic helpers.                                                     *)

Abs(a) == IF a < 0 THEN -a ELSE a
Max(a, b) == IF a >= b THEN a ELSE b
Min(a, b) == IF a <= b THEN a ELSE b

\* round(n / d) for d # 0, to the nearest integer, a tie going to the even
\* neighbour as Python's round does
RoundDiv(n, d) ==
    LET nn == IF d < 0 THEN -n ELSE n
        dd == Abs(d)
        q  == nn \div dd
        r  == nn % dd
    IN  IF 2 * r < dd THEN q
        ELSE IF 2 * r > dd THEN q + 1
        ELSE IF q % 2 = 0 THEN q ELSE q + 1

\* a / b of the code: the quotient, kept as numerator and denominator, and
\* whether the division raises ZeroDivisionError
true_div(a, b) == [num |-> a, den |-> b, raises |-> b = 0]

\* 1 / q of the code for a quotient q
true_div_into_one(q) == [num |-> q.den, den |-> q.num, raises |-> q.raises \/ q.num = 0]

\* the value a taken where the code does not divide
undivided(a) == [num |-> a, den |-> 1, raises |-> FALSE]

\* a quotient to the nearest unit
rounded(q) == RoundDiv(q.num, q.den)

\* math.isclose(val1, val2, abs_tol=abs_tol):
\*   abs(a - b) <= max(rel_tol * max(abs(a), abs(b)), abs_tol)
\* on values and a tolerance counted in the same unit
isclose_abs_tol(val1, val2, abs_tol) ==
    LET rel == Max(Abs(val1), Abs(val2)) \div REL_TOL_INV
    IN  Abs(val1 - val2) <= Max(rel, abs_tol)

\* math.isclose(val1, val2, abs_tol=SLOP) on values in units of 0.0001 m
isclose(val1, val2) == isclose_abs_tol(val1, val2, SLOP)

\* rough_comp on values counted in a unit in which SLOP is `slop`
rough_comp_in(slop, val1, val2, comp) ==
    LET upper == val2 - slop
        lower == val2 + slop
    IN  IF comp \in {EQUAL, LESS_EQUAL, GREATER_EQUAL} /\ isclose_abs_tol(val1, val2, slop)
        THEN TRUE
        ELSE IF comp = NOT_EQUAL /\ ~isclose_abs_tol(val1, val2, slop) THEN TRUE
        ELSE IF comp = LESS_EQUAL /\ val1 < val2 THEN TRUE
        ELSE IF comp = GREATER_EQUAL /\ val1 > val2 THEN TRUE
        ELSE IF comp = LESS /\ (val1 < upper \/ val1 < lower) THEN TRUE
        ELSE IF comp = GREATER /\ (val1 > upper \/ val1 > lower) THEN TRUE
        ELSE FALSE

\* rough_comp on values in units of 0.0001 m
rough_comp(val1, val2, comp) == rough_comp_in(SLOP, val1, val2, comp)

-----------------------------------------------------------------------------
(* The mesh accumulator: a record of the three buffers and of what a       *)
(* generation pass carries along: the diagnostics file, whether an         *)
(* exception is propagating (raised), whether a loop has stopped making    *)
(* progress and so never returns (hung), and the pseudo-random source: rnd *)
(* is the sequence of draws to come, each 0, 1 or 2, read cyclically, and  *)
(* k the number of draws made.  short tells how the binary floating point  *)
(* of this run rounds the sum cur_y + (length - cur_y) of a drawn cur_y    *)
(* below length / 2: to length, or to the next float below it.  cells is   *)
(* the log of the cells wood_square_parquet has laid in this pass: for     *)
(* each the cursors it began at, its orientation, the numbers of the first *)
(* and last cuboid it laid, and the cur_y it left.                         *)

Mesh(v, f, m, txt, rnd) ==
    [vs |-> v, fs |-> f, ms |-> m, txt |-> txt, raised |-> FALSE, hung |-> FALSE,
     rnd |-> rnd, k |-> 0, short |-> FALSE, cells |-> <<>>]

\* the new elements put in front of the list
append_all_in_front(v_list, add) == add \o v_list

append_all(v_list, add) == v_list \o add

\* p of add_cube_faces with the pointer left at the end of the buffer
add_cube_faces_stale_p(m) ==
    LET p == Len(m.vs)
    IN  [m EXCEPT !.fs = append_all(m.fs,
            << <<p, p + 2, p + 3, p + 1>>, <<p + 2, p + 6, p + 7, p + 3>>,
               <<p + 1, p + 3, p + 7, p + 5>>, <<p + 6, p + 4, p + 5, p + 7>>,
               <<p, p + 1, p + 5, p + 4>>, <<p, p + 4, p + 6, p + 2>> >>)]

add_cube_faces(m) ==
    LET p == Len(m.vs) - 8
    IN  [m EXCEPT !.fs = append_all(m.fs,
            << <<p, p + 2, p + 3, p + 1>>, <<p + 2, p + 6, p + 7, p + 3>>,
               <<p + 1, p + 3, p + 7, p + 5>>, <<p + 6, p + 4, p + 5, p + 7>>,
               <<p, p + 1, p + 5, p + 4>>, <<p, p + 4, p + 6, p + 2>> >>)]

\* one material id for each vertex of the cube instead of each face
add_cube_mat_ids_per_vertex(m, mat_id) ==
    [m EXCEPT !.ms = append_all(m.ms, [i \in 1..8 |-> mat_id])]

add_cube_mat_ids(m, mat_id) ==
    [m EXCEPT !.ms = append_all(m.ms, [i \in 1..6 |-> mat_id])]

\* the early return of add_cube, with the far edge itself let through
cube_out_of_bounds_strict(c, x, y, clip) ==
    clip /\ (x > c.width \/ y > c.length)

\* the early return of add_cube: the starting point is beyond the bounds
cube_out_of_bounds(c, x, y, clip) ==
    clip /\ (x >= c.width \/ y >= c.length)

\* w left as it was passed
cube_clip_w_untrimmed(c, x, w, clip) == w

\* w after the trim of add_cube
cube_clip_w(c, x, w, clip) ==
    IF clip /\ x + w > c.width THEN c.width - x ELSE w

\* the trim of l written against the width
cube_clip_l_by_width(c, y, l, clip) ==
    IF clip /\ y + l > c.width THEN c.width - y ELSE l

\* l after the trim of add_cube
cube_clip_l(c, y, l, clip) ==
    IF clip /\ y + l > c.length THEN c.length - y ELSE l

add_cube(m, c, x, y, z, w, l, t, clip, mat_id) ==
    IF cube_out_of_bounds(c, x, y, clip) THEN m
    ELSE
        LET w2 == cube_clip_w(c, x, w, clip)
            l2 == cube_clip_l(c, y, l, clip)
            m1 == [m EXCEPT !.vs = append_all(m.vs,
                     << <<x, y, z>>, <<x, y, z + t>>, <<x + w2, y, z>>, <<x + w2, y, z + t>>,
                        <<x, y + l2, z>>, <<x, y + l2, z + t>>, <<x + w2, y + l2, z>>,
                        <<x + w2, y + l2, z + t>> >>)]
        IN  add_cube_mat_ids(add_cube_faces(m1), mat_id)

-----------------------------------------------------------------------------
(* Plane geometry.  A point is <<x, y>>, a line segment <<pt1, pt2>>.      *)

\* (10000 * hi + lo) / den rounded to the nearest integer (ties to even), the
\* quotient built by long division so that no intermediate value leaves the
\* machine integers
\* the quotient q with remainder r of a division by dd > 0, rounded
RoundQuotient(qr, dd) ==
    IF 2 * qr[2] < dd THEN qr[1]
    ELSE IF 2 * qr[2] > dd THEN qr[1] + 1
    ELSE IF qr[1] % 2 = 0 THEN qr[1] ELSE qr[1] + 1

\* one more decimal digit of the dividend brought down
DivStep(qr, dig, dd) == <<qr[1] * 10 + ((qr[2] * 10 + dig) \div dd), (qr[2] * 10 + dig) % dd>>

\* the long division of 10000 * h2 + l0 by dd, 0 <= l0 < 10000 < dd
LongDiv(h2, l0, dd) ==
    DivStep(DivStep(DivStep(DivStep(<<h2 \div dd, h2 % dd>>, l0 \div 1000, dd),
                            (l0 \div 100) % 10, dd),
                    (l0 \div 10) % 10, dd),
            l0 % 10, dd)

BigRoundDiv(hi, lo, den) ==
    LET sg == IF den < 0 THEN -1 ELSE 1
    IN  RoundQuotient(LongDiv(sg * hi + ((sg * lo) \div 10000), (sg * lo) % 10000, Abs(den)),
                      Abs(den))

\* part1 * a - b * part2 as the pair <<hi, lo>> with value 10000 * hi + lo
MulSub(part1, a, b, part2) ==
    <<(part1 \div 10000) * a - b * (part2 \div 10000),
      (part1 % 10000) * a - b * (part2 % 10000)>>

\* slope of line_from_points: 0 for a vertical pair
line_from_points_slope(pt1, pt2) ==
    IF pt2[1] - pt1[1] # 0 THEN true_div(pt2[2] - pt1[2], pt2[1] - pt1[1]) ELSE undivided(0)

\* lambda x: slope * (x - pt1[0]) + pt1[1], evaluated at x and rounded to 4
\* digits as its only caller does
line_from_points_at(slope, pt1, x) == RoundDiv(slope.num * (x - pt1[1]), slope.den) + pt1[2]

line_from_points(pt1, pt2, x) == line_from_points_at(line_from_points_slope(pt1, pt2), pt1, x)

line_segments_from_points(points) ==
    [i \in 1..Len(points) |->
        IF i < Len(points) THEN <<points[i], points[i + 1]>>
        ELSE <<points[Len(points)], points[1]>>]

\* None is <<>>; otherwise the exact intersection <<x, y>> of the two lines,
\* each coordinate a quotient [hi, lo, den]
point_of_intersection(p1, p2, p3, p4) ==
    LET bottom == (p1[1] - p2[1]) * (p3[2] - p4[2]) - (p1[2] - p2[2]) * (p3[1] - p4[1])
        part1  == p1[1] * p2[2] - p1[2] * p2[1]
        part2  == p3[1] * p4[2] - p3[2] * p4[1]
        xn     == MulSub(part1, p3[1] - p4[1], p1[1] - p2[1], part2)
        yn     == MulSub(part1, p3[2] - p4[2], p1[2] - p2[2], part2)
    IN  IF bottom # 0
        THEN << [hi |-> xn[1], lo |-> xn[2], den |-> bottom],
                [hi |-> yn[1], lo |-> yn[2], den |-> bottom] >>
        ELSE <<>>

\* round_tuple(tup, digits=4) of an exact point
round_tuple(tup) ==
    <<BigRoundDiv(tup[1].hi, tup[1].lo, tup[1].den),
      BigRoundDiv(tup[2].hi, tup[2].lo, tup[2].den)>>

points_on_same_side_of_line_segment(pt1, pt2, line_segment) ==
    LET y1 == line_from_points(line_segment[1], line_segment[2], pt1[1])
        y2 == line_from_points(line_segment[1], line_segment[2], pt2[1])
        sx == line_segment[1][1]
    IN  IF rough_comp(sx, line_segment[2][1], EQUAL)
        THEN \/ rough_comp(pt1[1], sx, GREATER_EQUAL) /\ rough_comp(pt2[1], sx, GREATER_EQUAL)
             \/ rough_comp(pt1[1], sx, LESS_EQUAL) /\ rough_comp(pt2[1], sx, LESS_EQUAL)
        ELSE \/ rough_comp(pt1[2], y1, LESS_EQUAL) /\ rough_comp(pt2[2], y2, LESS_EQUAL)
             \/ rough_comp(pt1[2], y1, GREATER_EQUAL) /\ rough_comp(pt2[2], y2, GREATER_EQUAL)

-----------------------------------------------------------------------------
(* Angular sort of corner points.                                          *)
(* The center is [x, y, den]: the point (x / den, y / den), den > 0.  An   *)
(* angle is kept as what the code adds up: the atan of dy / dx (or         *)
(* radians(90) when dx = 0) plus 0, radians(180) or the literal 360.       *)

\* turn 0: nothing added; 1: radians(180) added; 2: 360 added.  quot is the
\* quotient handed to atan; with dx = 0 none is formed
corner_angle(pt, center) ==
    LET dx == pt[1] * center.den - center.x
        dy == pt[2] * center.den - center.y
    IN  [dx |-> dx, dy |-> dy,
         quot |-> IF dx # 0 THEN true_div(dy, dx) ELSE undivided(0),
         turn |-> IF dx < 0 THEN 1 ELSE IF dy < 0 THEN 2 ELSE 0]

\* a > b as floats: atan is in (-pi/2, pi/2) and radians(90) above it, so a
\* larger addend always wins; with the same addend the dx have one sign and
\* atan is increasing in dy / dx
angle_greater(a, b) ==
    IF a.turn # b.turn THEN a.turn > b.turn
    ELSE IF b.dx = 0 THEN FALSE
    ELSE IF a.dx = 0 THEN TRUE
    ELSE a.dy * b.dx > b.dy * a.dx

\* the position the inner loop of sort_corner_points leaves in i
insert_position(ang, sorted_) ==
    LET bigger == {pos \in 1..Len(sorted_) : angle_greater(ang, sorted_[pos][1])}
    IN  IF bigger = {} THEN 0 ELSE CHOOSE pos \in bigger : \A q \in bigger : q <= pos

RECURSIVE sort_angles(_, _, _)
sort_angles(unsorted, k, sorted_) ==
    IF k > Len(unsorted) THEN sorted_
    ELSE LET i == insert_position(unsorted[k][1], sorted_)
         IN  sort_angles(unsorted, k + 1,
                 SubSeq(sorted_, 1, i) \o <<unsorted[k]>> \o SubSeq(sorted_, i + 1, Len(sorted_)))

sort_corner_points(points, center) ==
    LET unsorted == [k \in 1..Len(points) |-> <<corner_angle(points[k], center), points[k]>>]
        sorted_  == sort_angles(unsorted, 1, <<>>)
    IN  [k \in 1..Len(sorted_) |-> sorted_[k][2]]

-----------------------------------------------------------------------------
(* Boards from boundaries.                                                 *)

\* returns [ret, txt, raised]: the answer, the diagnostics file afterwards and
\* whether open() raised (ok says whether 'D:/test.txt' can be opened)
point_in_shape(txt, ok, c, point, shape, center) ==
    IF ~(/\ rough_comp(point[1], 0, GREATER_EQUAL)
         /\ rough_comp(point[1], c.width, LESS_EQUAL)
         /\ rough_comp(point[2], 0, GREATER_EQUAL)
         /\ rough_comp(point[2], c.length, LESS_EQUAL))
    THEN IF ok THEN [ret |-> FALSE, txt |-> Append(txt, point), raised |-> FALSE]
         ELSE [ret |-> FALSE, txt |-> txt, raised |-> TRUE]
    ELSE [ret |-> \A k \in 1..Len(shape) :
                      points_on_same_side_of_line_segment(center, point, shape[k]),
          txt |-> txt, raised |-> FALSE]

InSeq(e, seq) == \E k \in 1..Len(seq) : seq[k] = e

\* out.append(r_point) when point_in_shape has answered pis
corner_checked(acc, r_point, pis) ==
    [out |-> IF pis.ret THEN Append(acc.out, r_point) ELSE acc.out,
     txt |-> pis.txt, raised |-> pis.raised]

\* `if r_point not in out and self.point_in_shape(r_point, shape, center)`
corner_rounded(acc, ok, c, shape, center, r_point) ==
    IF InSeq(r_point, acc.out) THEN acc
    ELSE corner_checked(acc, r_point, point_in_shape(acc.txt, ok, c, r_point, shape, center))

\* the body of the inner loop for the intersection `point`
corner_found(acc, ok, c, shape, center, point) ==
    IF point = <<>> THEN acc
    ELSE corner_rounded(acc, ok, c, shape, center, round_tuple(point))

\* the two nested loops, at segments i < j (1-based); acc is [out, txt, raised]
RECURSIVE corner_loop(_, _, _, _, _, _, _, _)
corner_loop(acc, ok, c, segments, shape, center, i, j) ==
    IF acc.raised \/ i >= Len(segments) THEN acc
    ELSE IF j > Len(segments) THEN corner_loop(acc, ok, c, segments, shape, center, i + 1, i + 2)
    ELSE corner_loop(corner_found(acc, ok, c, shape, center,
                                  point_of_intersection(segments[i][1], segments[i][2],
                                                        segments[j][1], segments[j][2])),
                     ok, c, segments, shape, center, i, j + 1)

corner_points_from_boundaries(txt, ok, c, segments, shape, center) ==
    corner_loop([out |-> <<>>, txt |-> txt, raised |-> FALSE], ok, c, segments, shape, center, 1, 2)

RECURSIVE SumSeq(_, _)
SumSeq(seq, k) == IF k > Len(seq) THEN 0 ELSE seq[k] + SumSeq(seq, k + 1)

\* center / (2 * len(shape)), a quotient for each coordinate; (0, 0) where
\* the shape has no segments
shape_center_quotients(shape) ==
    IF Len(shape) # 0
    THEN <<true_div(SumSeq([k \in 1..Len(shape) |-> shape[k][1][1] + shape[k][2][1]], 1),
                    2 * Len(shape)),
           true_div(SumSeq([k \in 1..Len(shape) |-> shape[k][1][2] + shape[k][2][2]], 1),
                    2 * Len(shape))>>
    ELSE <<undivided(0), undivided(0)>>

\* the rounded mean of the endpoints of the shape's segments, (0, 0) for none
shape_center(shape) ==
    <<rounded(shape_center_quotients(shape)[1]), rounded(shape_center_quotients(shape)[2])>>

outer_boundaries(c) ==
    << <<<<0, 0>>, <<0, c.length>>>>, <<<<0, 0>>, <<c.width, 0>>>>,
       <<<<c.width, 0>>, <<c.width, c.length>>>>,
       <<<<c.width, c.length>>, <<0, c.length>>>> >>

\* the corner search of add_board_from_boundaries: [out, txt, raised]
board_corners(txt, ok, c, shape) ==
    corner_points_from_boundaries(txt, ok, c, outer_boundaries(c) \o shape, shape,
                                  shape_center(shape))

\* the mean of the corners, kept exact
points_center(corners) ==
    [x |-> SumSeq([k \in 1..Len(corners) |-> corners[k][1]], 1),
     y |-> SumSeq([k \in 1..Len(corners) |-> corners[k][2]], 1),
     den |-> Len(corners)]

\* top_face of add_board_from_boundaries with the reverse() left out
board_top_face_unreversed(p, n) == [k \in 1..n |-> p + 2 * (k - 1)]

\* top_face of add_board_from_boundaries after top_face.reverse(): the z = 0
\* vertex of each point, the last point first
board_top_face(p, n) == [k \in 1..n |-> p + 2 * (n - k)]

\* bottom_face of add_board_from_boundaries: the z = th vertex of each point
board_bottom_face(p, n) == [k \in 1..n |-> p + 2 * (k - 1) + 1]

\* the vertices and faces appended for the sorted points
extrude_board(m, points, th, mat_id) ==
    LET n == Len(points)
        p == Len(m.vs)
        verts == [k \in 1..2 * n |->
                    IF k % 2 = 1 THEN <<points[(k + 1) \div 2][1], points[(k + 1) \div 2][2], 0>>
                    ELSE <<points[k \div 2][1], points[k \div 2][2], th>>]
        sides == [i \in 1..n - 1 |->
                    <<p + 2 * (i - 1), p + 2 * (i - 1) + 2, p + 2 * (i - 1) + 3, p + 2 * (i - 1) + 1>>]
        pl == p + 2 * (n - 1)
        faces == sides \o << <<pl, p, p + 1, pl + 1>>, board_top_face(p, n),
                             board_bottom_face(p, n) >>
    IN  [m EXCEPT !.vs = m.vs \o verts,
                  !.fs = m.fs \o faces,
                  !.ms = m.ms \o [k \in 1..Len(faces) |-> mat_id]]

\* add_board_from_boundaries once the corner search has answered cr
board_of_corners(m, cr, th, mat_id) ==
    IF cr.raised THEN [m EXCEPT !.raised = TRUE]
    ELSE IF Len(cr.out) < 3 THEN [m EXCEPT !.txt = cr.txt]
    ELSE extrude_board([m EXCEPT !.txt = cr.txt],
                       sort_corner_points(cr.out, points_center(cr.out)), th, mat_id)

add_board_from_boundaries(m, ok, c, shape, th, mat_id) ==
    board_of_corners(m, board_corners(m.txt, ok, c, shape), th, mat_id)

-----------------------------------------------------------------------------
(* Property values.  Lengths in units of 0.0001 m, percentages as numbers. *)

SmallFloor ==
    [floor_material |-> "wood", wood_style |-> "regular", tile_style |-> "regular",
     width |-> 2 * FOOT, length |-> 2 * FOOT, spacing |-> 0, thickness |-> INCH,
     vary_thickness |-> FALSE, thickness_variance |-> 25,
     board_width |-> 6 * INCH, vary_width |-> FALSE, width_variance |-> 50,
     width_spacing |-> 0, board_length |-> 2 * FOOT, short_board_length |-> 2 * FOOT,
     vary_length |-> FALSE, length_variance |-> 50, max_boards |-> 2,
     length_spacing |-> 0, boards_in_group |-> 4,
     tile_width |-> FOOT, tile_length |-> 8 * INCH, mortar_depth |-> 64,
     random_offset |-> FALSE, offset |-> 0, offset_variance |-> 50]

-----------------------------------------------------------------------------
(* Pattern generators.  A while loop is a recursive operator over its loop *)
(* variables; an iteration that leaves them all unchanged repeats forever, *)
(* and the pass is then marked hung with the buffers of that moment.       *)

\* the pass goes no further: an exception is propagating or a loop repeats forever
stopped(m) == m.raised \/ m.hung

\* random.uniform(a, b): the draw picks a, the middle or b
uniform(m, a, b) ==
    LET d == m.rnd[(m.k % Len(m.rnd)) + 1]
    IN  IF d = 0 THEN a ELSE IF d = 2 THEN b ELSE RoundDiv(a + b, 2)

\* m after `n` draws were made
drawn(m, n) == [m EXCEPT !.k = m.k + n]

\* 1 when the flag makes the code call uniform, else 0
draws(flag) == IF flag THEN 1 ELSE 0

\* off of get_thickness: 1 / (100 / thickness_variance), 0 for no variance
get_thickness_off(c) ==
    IF c.thickness_variance # 0 THEN true_div_into_one(true_div(100, c.thickness_variance))
    ELSE undivided(0)

\* v = off * self.thickness
get_thickness_v(off, c) == RoundDiv(off.num * c.thickness, off.den)

get_thickness(m, c) ==
    IF c.vary_thickness
    THEN uniform(m, c.thickness - get_thickness_v(get_thickness_off(c), c),
                    c.thickness + get_thickness_v(get_thickness_off(c), c))
    ELSE c.thickness

\* the slab laid as the top mortar_depth of the thickness
tile_grout_on_top(m, c) ==
    add_cube(m, c, 0, 0, c.thickness - c.mortar_depth, c.width, c.length, c.mortar_depth, TRUE, 1)

tile_grout(m, c) ==
    LET z == c.thickness - c.mortar_depth
        x == c.width
        y == c.length
    IN  add_cube(m, c, 0, 0, 0, x, y, z, TRUE, 1)

\* o of tile_regular with the test for offset 0 left out
tile_regular_o_unguarded(c) == true_div_into_one(true_div(100, c.offset))

\* o of tile_regular: 1 / (100 / offset), 0 for offset 0
tile_regular_o(c) ==
    IF c.offset # 0 THEN true_div_into_one(true_div(100, c.offset)) ELSE undivided(0)

\* the inner loop of tile_regular: one row of tiles from cur_x on
RECURSIVE tile_regular_row(_, _, _, _, _, _)
tile_regular_row(m, c, cur_x, cur_y, tl2, off) ==
    IF stopped(m) \/ ~(cur_x < c.width) THEN m
    ELSE
        LET o   == tile_regular_o(c)
            v   == RoundDiv(c.tile_width * c.offset_variance * 49, 10000)
            rnd == ~(cur_x < c.width /\ c.width < cur_x + c.tile_width)
                      /\ ~(cur_x = 0 /\ off /\ ~c.random_offset)
                      /\ cur_x = 0 /\ c.random_offset
            tw2 == IF cur_x < c.width /\ c.width < cur_x + c.tile_width THEN c.width - cur_x
                   ELSE IF cur_x = 0 /\ off /\ ~c.random_offset
                        THEN RoundDiv(c.tile_width * o.num, o.den)
                   ELSE IF cur_x = 0 /\ c.random_offset
                        THEN uniform(m, RoundDiv(c.tile_width, 2) - v, RoundDiv(c.tile_width, 2) + v)
                   ELSE c.tile_width
            m1  == drawn(m, draws(rnd))
            m2  == drawn(add_cube(m1, c, cur_x, cur_y, 0, tw2, tl2, get_thickness(m1, c), TRUE, 0),
                         draws(c.vary_thickness))
        IN  IF tw2 + c.spacing = 0 THEN [m2 EXCEPT !.hung = TRUE]
            ELSE tile_regular_row(m2, c, cur_x + tw2 + c.spacing, cur_y, tl2, off)

\* the outer loop of tile_regular: the rows from cur_y on
RECURSIVE tile_regular_rows(_, _, _, _)
tile_regular_rows(m, c, cur_y, off) ==
    IF stopped(m) \/ ~(cur_y < c.length) THEN m
    ELSE
        LET tl2 == IF cur_y < c.length /\ c.length < cur_y + c.tile_length
                   THEN c.length - cur_y ELSE c.tile_length
        IN  tile_regular_rows(tile_regular_row(m, c, 0, cur_y, tl2, off), c,
                              cur_y + tl2 + c.spacing, ~off)

\* o is computed before the loops: a ZeroDivisionError there ends the pass
tile_regular(m, c) ==
    IF tile_regular_o(c).raises THEN [m EXCEPT !.raised = TRUE]
    ELSE tile_regular_rows(m, c, 0, FALSE)

\* the cuboid laid with the material id of the grout
place_with_grout_id(m, c, x, y, w, l) ==
    drawn(add_cube(m, c, x, y, 0, w, l, get_thickness(m, c), TRUE, 1), draws(c.vary_thickness))

\* self.add_cube(x, y, 0, w, l, self.get_thickness()): a clipped cuboid of
\* material 0 standing on z = 0
place(m, c, x, y, w, l) ==
    drawn(add_cube(m, c, x, y, 0, w, l, get_thickness(m, c), TRUE, 0), draws(c.vary_thickness))

\* (a - b) / 2, the small tile extent; property values are chosen so that it
\* is a whole number of units
half_less(a, b) == RoundDiv(a - b, 2)

\* the inner loop of tile_hopscotch; only the buffers outlive it
RECURSIVE tile_hopscotch_row(_, _, _, _, _, _)
tile_hopscotch_row(m, c, row, cur_x, cur_y, step_back) ==
    IF stopped(m) \/ ~(cur_x < c.width) THEN m
    ELSE
        LET sp   == c.spacing
            tw   == c.tile_width
            tl   == c.tile_length
            s_tw == half_less(tw, sp)
            s_tl == half_less(tl, sp)
        IN  IF row = 0 \/ row = 1
            THEN LET m1 == IF cur_y < 0 THEN place(m, c, cur_x, 0, tw, tl + cur_y)
                           ELSE place(m, c, cur_x, cur_y, tw, tl)
                     m2 == place(m1, c, cur_x + tw + sp, cur_y + s_tl + sp, s_tw, s_tl)
                 IN  IF step_back
                     THEN tile_hopscotch_row(m2, c, row, cur_x + tw + sp, cur_y - (s_tl + sp), FALSE)
                     ELSE tile_hopscotch_row(m2, c, row, cur_x + tw + s_tw + 2 * sp,
                                             cur_y + s_tl + sp, TRUE)
            ELSE IF cur_x = 0
            THEN LET m1 == place(m, c, cur_x, cur_y, s_tw, tl)
                     m2 == place(m1, c, cur_x + s_tw + sp, cur_y + s_tl + sp, s_tw, s_tl)
                     m3 == place(m2, c, cur_x, cur_y - sp - s_tl, s_tw, s_tl)
                 IN  tile_hopscotch_row(m3, c, row, cur_x + (2 * s_tw) + tw + (3 * sp), cur_y,
                                        step_back)
            ELSE LET m1 == place(m, c, cur_x, cur_y, tw, tl)
                     m2 == place(m1, c, cur_x + tw + sp, cur_y + s_tl + sp, s_tw, s_tl)
                 IN  tile_hopscotch_row(m2, c, row, cur_x + (2 * tw) + (3 * sp) + s_tw, cur_y,
                                        step_back)

\* the outer loop of tile_hopscotch; cur_y = pre_y whenever it is tested
RECURSIVE tile_hopscotch_rows(_, _, _, _)
tile_hopscotch_rows(m, c, row, cur_y) ==
    LET sp   == c.spacing
        s_tw == half_less(c.tile_width, sp)
        s_tl == half_less(c.tile_length, sp)
    IN  IF stopped(m) \/ ~(cur_y < c.length \/ (row = 2 /\ cur_y - s_tl - sp < c.length))
        THEN m
        ELSE tile_hopscotch_rows(
                 tile_hopscotch_row(m, c, row, IF row = 1 THEN s_tw + sp ELSE 0, cur_y, TRUE),
                 c, (row + 1) % 3,
                 IF row = 0 \/ row = 2 THEN cur_y + c.tile_length + sp ELSE cur_y + s_tl + sp)

tile_hopscotch(m, c) == tile_hopscotch_rows(m, c, 0, 0)

RECURSIVE tile_stepping_stone_row(_, _, _, _, _)
tile_stepping_stone_row(m, c, row, cur_x, cur_y) ==
    IF stopped(m) \/ ~(cur_x < c.width) THEN m
    ELSE
        LET sp   == c.spacing
            tw   == c.tile_width
            tl   == c.tile_length
            s_tw == half_less(tw, sp)
            s_tl == half_less(tl, sp)
        IN  IF row = 0
            THEN LET m1 == place(m, c, cur_x, cur_y, tw, tl)
                     m2 == place(m1, c, cur_x + tw + sp, cur_y, s_tw, s_tl)
                     m3 == place(m2, c, cur_x + tw + sp, cur_y + s_tl + sp, s_tw, s_tl)
                 IN  tile_stepping_stone_row(m3, c, row, cur_x + tw + s_tw + (2 * sp), cur_y)
            ELSE LET m1 == place(m, c, cur_x, cur_y, s_tw, s_tl)
                     m2 == place(m1, c, cur_x + s_tw + sp, cur_y, s_tw, s_tl)
                 IN  tile_stepping_stone_row(m2, c, row, cur_x + tw + sp, cur_y)

RECURSIVE tile_stepping_stone_rows(_, _, _, _)
tile_stepping_stone_rows(m, c, row, cur_y) ==
    IF stopped(m) \/ ~(cur_y < c.length) THEN m
    ELSE tile_stepping_stone_rows(
             tile_stepping_stone_row(m, c, row, 0, cur_y), c, (row + 1) % 2,
             IF row = 0 THEN cur_y + c.tile_length + c.spacing
             ELSE cur_y + half_less(c.tile_length, c.spacing) + c.spacing)

tile_stepping_stone(m, c) == tile_stepping_stone_rows(m, c, 0, 0)

RECURSIVE tile_windmill_row(_, _, _, _)
tile_windmill_row(m, c, cur_x, cur_y) ==
    IF stopped(m) \/ ~(cur_x < c.width) THEN m
    ELSE
        LET sp   == c.spacing
            tw   == c.tile_width
            tl   == c.tile_length
            s_tw == half_less(tw, sp)
            s_tl == half_less(tl, sp)
            m1   == place(m, c, cur_x, cur_y, tw, s_tl)                          \* bottom
            m2   == place(m1, c, cur_x + tw + sp, cur_y, s_tw, tl)               \* right
            m3   == place(m2, c, cur_x + s_tw + sp, cur_y + tl + sp, tw, s_tl)   \* top
            m4   == place(m3, c, cur_x, cur_y + s_tl + sp, s_tw, tl)             \* left
            m5   == place(m4, c, cur_x + s_tw + sp, cur_y + s_tl + sp, s_tw, s_tl)  \* center
        IN  tile_windmill_row(m5, c, cur_x + tw + s_tw + (2 * sp), cur_y)

\* the rows of tile_windmill set one tile length apart
RECURSIVE tile_windmill_rows_close(_, _, _)
tile_windmill_rows_close(m, c, cur_y) ==
    IF stopped(m) \/ ~(cur_y < c.length) THEN m
    ELSE tile_windmill_rows_close(tile_windmill_row(m, c, 0, cur_y), c, cur_y + c.tile_length)

\* the outer loop of tile_windmill: the rows from cur_y on
RECURSIVE tile_windmill_rows(_, _, _)
tile_windmill_rows(m, c, cur_y) ==
    IF stopped(m) \/ ~(cur_y < c.length) THEN m
    ELSE tile_windmill_rows(tile_windmill_row(m, c, 0, cur_y), c,
             cur_y + c.tile_length + half_less(c.tile_length, c.spacing) + (2 * c.spacing))

tile_windmill(m, c) == tile_windmill_rows(m, c, 0)

\* bl2 of wood_regular once the column's counter and the far edge are looked at
wood_regular_bl2(c, counter, cur_y, bl1) ==
    IF (counter >= c.max_boards /\ c.vary_length) \/ cur_y + bl1 > c.length
    THEN c.length - cur_y ELSE bl1

\* the column cursor moved on by the nominal board width on top of the board laid
wood_regular_next_x_skipping(c, cur_x, bw2) == cur_x + bw2 + c.board_width + c.width_spacing

\* cur_x += bw2 + self.width_spacing
wood_regular_next_x(c, cur_x, bw2) == cur_x + bw2 + c.width_spacing

\* whether the float sum cur_y + (bl2 + length_spacing) falls short of length:
\* the board fills the remainder (bl2 = length - cur_y), nothing is added to
\* it, and length - cur_y is not exact, which takes a cur_y that was drawn
\* (0 < cur_y) and lies below length / 2
wood_regular_falls_short(m, c, counter, cur_y, bl1) ==
    /\ m.short /\ c.vary_length /\ c.length_spacing = 0
    /\ ((counter >= c.max_boards /\ c.vary_length) \/ cur_y + bl1 > c.length)
    /\ 0 < cur_y /\ 2 * cur_y < c.length

\* the inner loop of wood_regular: the boards of one column from cur_y on;
\* below tells that the float cur_y lies just below the value cur_y, so that
\* cur_y = length still passes `cur_y < self.length` and the skip test of add_cube
RECURSIVE wood_regular_column(_, _, _, _, _, _, _)
wood_regular_column(m, c, cur_x, bw2, cur_y, counter, below) ==
    IF stopped(m) \/ ~(cur_y < c.length \/ below) THEN m
    ELSE
        LET bl  == c.board_length
            v   == RoundDiv(bl * c.length_variance * 99, 10000)
            bl1 == IF c.vary_length THEN uniform(m, bl - v, bl + v) ELSE bl
            bl2 == wood_regular_bl2(c, counter, cur_y, bl1)
            m0  == drawn(m, draws(c.vary_length))
            m1  == IF below
                   THEN drawn(add_cube(m0, c, cur_x, cur_y, 0, bw2, bl2, get_thickness(m0, c),
                                       FALSE, 0), draws(c.vary_thickness))
                   ELSE place(m0, c, cur_x, cur_y, bw2, bl2)
        IN  wood_regular_column(m1, c, cur_x, bw2, cur_y + bl2 + c.length_spacing, counter + 1,
                                ~below /\ wood_regular_falls_short(m, c, counter, cur_y, bl1))

\* the outer loop of wood_regular: the columns from cur_x on
RECURSIVE wood_regular_columns(_, _, _)
wood_regular_columns(m, c, cur_x) ==
    IF stopped(m) \/ ~(cur_x < c.width) THEN m
    ELSE
        LET bw  == c.board_width
            v   == RoundDiv(bw * c.width_variance * 99, 10000)
            bw1 == IF c.vary_width THEN uniform(m, bw - v, bw + v) ELSE bw
            bw2 == IF bw1 + cur_x > c.width THEN c.width - cur_x ELSE bw1
            m1  == wood_regular_column(drawn(m, draws(c.vary_width)), c, cur_x, bw2, 0, 1, FALSE)
        IN  wood_regular_columns(m1, c, wood_regular_next_x(c, cur_x, bw2))

wood_regular(m, c) == wood_regular_columns(m, c, 0)

\* bw of wood_square_parquet; property values are chosen so that it is a whole
\* number of units
parquet_board_width(c) ==
    RoundDiv(c.short_board_length - (c.boards_in_group - 1) * c.spacing, c.boards_in_group)

\* the for loop of a length-wise cell: boards side by side along x
RECURSIVE parquet_lengthwise(_, _, _, _, _)
parquet_lengthwise(m, c, i, cur_x, cur_y) ==
    IF stopped(m) \/ i >= c.boards_in_group THEN m
    ELSE IF cur_x < c.width /\ cur_y < c.length
    THEN parquet_lengthwise(place(m, c, cur_x, cur_y, parquet_board_width(c), c.short_board_length),
                            c, i + 1, cur_x + parquet_board_width(c) + c.spacing, cur_y)
    ELSE parquet_lengthwise(m, c, i + 1, cur_x, cur_y)

\* the for loop of a width-wise cell: boards stacked along y; [m, cur_y]
RECURSIVE parquet_widthwise(_, _, _, _, _)
parquet_widthwise(m, c, i, cur_x, cur_y) ==
    IF stopped(m) \/ i >= c.boards_in_group THEN [m |-> m, cur_y |-> cur_y]
    ELSE IF cur_x < c.width /\ cur_y < c.length
    THEN parquet_widthwise(place(m, c, cur_x, cur_y, c.short_board_length, parquet_board_width(c)),
                           c, i + 1, cur_x, cur_y + parquet_board_width(c) + c.spacing)
    ELSE parquet_widthwise(m, c, i + 1, cur_x, cur_y)

\* m1, the mesh after the cell begun at (cur_x, cur_y) on `before` cuboids,
\* with that cell entered in the log
parquet_cell_logged(m1, before, cur_x, cur_y, orient_length, next_y) ==
    [m1 EXCEPT !.cells = Append(@, [cur_x |-> cur_x, cur_y |-> cur_y,
                                    orient_length |-> orient_length,
                                    first |-> before + 1, last |-> Len(m1.vs) \div 8,
                                    next_y |-> next_y])]

\* the inner while loop of wood_square_parquet: the cells of one column
RECURSIVE parquet_column(_, _, _, _, _)
parquet_column(m, c, cur_x, cur_y, orient_length) ==
    IF stopped(m) \/ ~(cur_y < c.length) THEN m
    ELSE IF orient_length
    THEN parquet_column(
             parquet_cell_logged(parquet_lengthwise(m, c, 0, cur_x, cur_y), Len(m.vs) \div 8,
                                 cur_x, cur_y, TRUE, cur_y + c.short_board_length + c.spacing),
             c, cur_x, cur_y + c.short_board_length + c.spacing, ~orient_length)
    ELSE LET r == parquet_widthwise(m, c, 0, cur_x, cur_y)
         IN  parquet_column(
                 parquet_cell_logged(r.m, Len(m.vs) \div 8, cur_x, cur_y, FALSE, r.cur_y),
                 c, cur_x, r.cur_y, ~orient_length)

\* the columns all begun in the orientation of the first one
RECURSIVE parquet_columns_unalternated(_, _, _, _)
parquet_columns_unalternated(m, c, cur_x, start_orient_length) ==
    IF stopped(m) \/ ~(cur_x < c.width) THEN m
    ELSE parquet_columns_unalternated(parquet_column(m, c, cur_x, 0, start_orient_length), c,
                                      cur_x + c.short_board_length + c.spacing,
                                      start_orient_length)

\* the outer while loop of wood_square_parquet: the columns from cur_x on
RECURSIVE parquet_columns(_, _, _, _)
parquet_columns(m, c, cur_x, start_orient_length) ==
    IF stopped(m) \/ ~(cur_x < c.width) THEN m
    ELSE parquet_columns(parquet_column(m, c, cur_x, 0, start_orient_length), c,
                         cur_x + c.short_board_length + c.spacing, ~start_orient_length)

wood_square_parquet(m, c) == parquet_columns(m, c, 0, TRUE)

\* cos and sin of the angles the generators use, in ten-thousandths
cos10k(deg) ==
    CASE deg = 30 -> 8660 [] deg = 45 -> 7071 [] deg = 60 -> 5000 [] deg = 90 -> 0
      [] deg = 150 -> -8660 [] deg = 210 -> -8660 [] deg = 270 -> 0 [] deg = 330 -> 8660

sin10k(deg) ==
    CASE deg = 30 -> 5000 [] deg = 45 -> 7071 [] deg = 60 -> 8660 [] deg = 90 -> 10000
      [] deg = 150 -> 5000 [] deg = 210 -> -5000 [] deg = 270 -> -10000 [] deg = 330 -> -5000

\* a * cos(deg), a * sin(deg) and a / cos(deg), to the nearest unit
times_cos(a, deg) == RoundDiv(a * cos10k(deg), 10000)
times_sin(a, deg) == RoundDiv(a * sin10k(deg), 10000)
over_cos(a, deg) == RoundDiv(a * 10000, cos10k(deg))

rotate_point(point, pivot, angle) ==
    LET x == point[1] - pivot[1]
        y == point[2] - pivot[2]
        new_x == times_cos(x, angle) - times_sin(y, angle)
        new_y == times_sin(x, angle) - times_cos(y, angle)
    IN  <<new_x + pivot[1], new_y + pivot[2]>>

\* self.add_board_from_boundaries(self.line_segments_from_points(points),
\* self.get_thickness()); nothing more happens once a call has raised
lay(m, ok, c, points) ==
    IF m.raised THEN m
    ELSE add_board_from_boundaries(drawn(m, draws(c.vary_thickness)), ok, c,
                                   line_segments_from_points(points), get_thickness(m, c), 0)

RECURSIVE tile_hexagon_row(_, _, _, _, _, _)
tile_hexagon_row(m, ok, c, base_points, cur_x, cur_y) ==
    IF stopped(m) \/ ~(2 * cur_x - c.tile_width < 2 * c.width) THEN m
    ELSE tile_hexagon_row(
             lay(m, ok, c, [i \in 1..Len(base_points) |->
                               <<base_points[i][1] + cur_x, base_points[i][2] + cur_y>>]),
             ok, c, base_points, cur_x + c.tile_width + c.spacing, cur_y)

RECURSIVE tile_hexagon_rows(_, _, _, _, _, _)
tile_hexagon_rows(m, ok, c, base_points, cur_y, offset) ==
    IF stopped(m) \/ ~(2 * cur_y - c.tile_width < 2 * c.length) THEN m
    ELSE
        LET dia == RoundDiv(c.tile_width * 10000, 2 * cos10k(30))
            vertical_spacing == RoundDiv(dia * (10000 + sin10k(30)) + c.spacing * sin10k(60), 10000)
            cur_x == IF offset THEN RoundDiv(c.tile_width, 2) ELSE -RoundDiv(c.spacing, 2)
        IN  tile_hexagon_rows(tile_hexagon_row(m, ok, c, base_points, cur_x, cur_y),
                              ok, c, base_points, cur_y + vertical_spacing, ~offset)

tile_hexagon(m, ok, c) ==
    LET dia == RoundDiv(c.tile_width * 10000, 2 * cos10k(30))
        base_points == [i \in 1..6 |-> rotate_point(<<dia, 0>>, <<0, 0>>, (i - 1) * 60 + 30)]
    IN  tile_hexagon_rows(m, ok, c, base_points, 0, FALSE)

\* the inner loop of wood_herringbone: a left board, then a right board while
\* cur_x is on the floor
RECURSIVE wood_herringbone_row(_, _, _, _, _)
RECURSIVE wood_herringbone_right(_, _, _, _, _)
wood_herringbone_row(m, ok, c, cur_x, cur_y) ==
    IF stopped(m) \/ ~(cur_x < c.width) THEN m
    ELSE
        LET width_dif   == over_cos(c.board_width, 45)
            x_dif       == times_cos(c.short_board_length, 45)
            y_dif       == times_sin(c.short_board_length, 45)
            total_y_dif == width_dif + y_dif
        IN  wood_herringbone_right(
                lay(m, ok, c, << <<cur_x, cur_y>>, <<cur_x + x_dif, cur_y + y_dif>>,
                                 <<cur_x + x_dif, cur_y + total_y_dif>>,
                                 <<cur_x, cur_y + width_dif>> >>),
                ok, c, cur_x + x_dif + c.spacing, cur_y)

\* the right board of the pair, laid while cur_x is on the floor, and on
wood_herringbone_right(m, ok, c, cur_x, cur_y) ==
    IF stopped(m) \/ ~(cur_x < c.width) THEN wood_herringbone_row(m, ok, c, cur_x, cur_y)
    ELSE
        LET width_dif   == over_cos(c.board_width, 45)
            x_dif       == times_cos(c.short_board_length, 45)
            y_dif       == times_sin(c.short_board_length, 45)
            total_y_dif == width_dif + y_dif
        IN  wood_herringbone_row(
                lay(m, ok, c, << <<cur_x, cur_y + y_dif>>, <<cur_x + x_dif, cur_y>>,
                                 <<cur_x + x_dif, cur_y + width_dif>>,
                                 <<cur_x, cur_y + total_y_dif>> >>),
                ok, c, cur_x + x_dif + c.spacing, cur_y)

RECURSIVE wood_herringbone_rows(_, _, _, _)
wood_herringbone_rows(m, ok, c, cur_y) ==
    IF stopped(m) \/ ~(cur_y < c.length) THEN m
    ELSE wood_herringbone_rows(wood_herringbone_row(m, ok, c, 0, cur_y), ok, c,
                               cur_y + over_cos(c.board_width, 45) + over_cos(c.spacing, 45))

wood_herringbone(m, ok, c) ==
    wood_herringbone_rows(m, ok, c, -times_sin(c.short_board_length, 45))

\* the inner loop of wood_herringbone_parquet
RECURSIVE wood_herringbone_parquet_row(_, _, _, _, _)
RECURSIVE wood_herringbone_parquet_right(_, _, _, _, _)
wood_herringbone_parquet_row(m, ok, c, cur_x, cur_y) ==
    LET x_dif       == times_cos(c.short_board_length, 45)
        y_dif       == times_sin(c.short_board_length, 45)
        y_dif_45    == times_cos(c.board_width, 45)
        x_dif_45    == times_sin(c.board_width, 45)
        total_y_dif == y_dif + y_dif_45
        sp_dif      == RoundDiv(c.spacing * 10000, 2 * cos10k(45))
    IN  IF stopped(m) \/ ~(cur_x - x_dif_45 < c.width) THEN m
        ELSE
            wood_herringbone_parquet_right(
                lay(m, ok, c, << <<cur_x, cur_y>>, <<cur_x + x_dif, cur_y + y_dif>>,
                                 <<cur_x + x_dif - x_dif_45, cur_y + total_y_dif>>,
                                 <<cur_x - x_dif_45, cur_y + y_dif_45>> >>),
                ok, c, cur_x + x_dif - x_dif_45 + sp_dif, cur_y + y_dif - y_dif_45 - sp_dif)

\* the right board of the pair, laid while cur_x is on the floor, and on
wood_herringbone_parquet_right(m, ok, c, cur_x, cur_y) ==
    LET x_dif       == times_cos(c.short_board_length, 45)
        y_dif       == times_sin(c.short_board_length, 45)
        y_dif_45    == times_cos(c.board_width, 45)
        x_dif_45    == times_sin(c.board_width, 45)
        sp_dif      == RoundDiv(c.spacing * 10000, 2 * cos10k(45))
    IN  IF stopped(m) \/ ~(cur_x < c.width) THEN wood_herringbone_parquet_row(m, ok, c, cur_x, cur_y)
        ELSE wood_herringbone_parquet_row(
                 lay(m, ok, c, << <<cur_x, cur_y>>, <<cur_x + x_dif, cur_y - y_dif>>,
                                  <<cur_x + x_dif + x_dif_45, cur_y - y_dif + y_dif_45>>,
                                  <<cur_x + x_dif_45, cur_y + y_dif_45>> >>),
                 ok, c, cur_x + x_dif + x_dif_45 + sp_dif, cur_y - (y_dif - y_dif_45 - sp_dif))

RECURSIVE wood_herringbone_parquet_rows(_, _, _, _)
wood_herringbone_parquet_rows(m, ok, c, cur_y) ==
    IF stopped(m) \/ ~(cur_y - times_cos(c.board_width, 45) < c.length) THEN m
    ELSE wood_herringbone_parquet_rows(
             wood_herringbone_parquet_row(m, ok, c, 0, cur_y), ok, c,
             cur_y + over_cos(c.board_width, 45)
                   + 2 * RoundDiv(c.spacing * 10000, 2 * cos10k(45)))

wood_herringbone_parquet(m, ok, c) ==
    wood_herringbone_parquet_rows(m, ok, c, -times_sin(c.short_board_length, 45))

\* only the vertex buffer is emptied
clear_data_vertices_only(m) == [m EXCEPT !.vs = <<>>]

\* self.vs, self.fs, self.ms = [], [], []
clear_data(m) == [m EXCEPT !.vs = <<>>, !.fs = <<>>, !.ms = <<>>]

\* update_data on the buffers of m: they are emptied, then the style runs
update_data(m, ok, c) ==
    LET m0 == clear_data(m)
    IN  IF c.floor_material = "wood"
        THEN IF c.wood_style = "regular" THEN wood_regular(m0, c)
             ELSE IF c.wood_style = "square_parquet" THEN wood_square_parquet(m0, c)
             ELSE IF c.wood_style = "herringbone" THEN wood_herringbone(m0, ok, c)
             ELSE IF c.wood_style = "herringbone_parquet" THEN wood_herringbone_parquet(m0, ok, c)
             ELSE m0
        ELSE IF c.floor_material = "tile"
        THEN LET g == tile_grout(m0, c)
             IN  IF c.tile_style = "regular" THEN tile_regular(g, c)
                 ELSE IF c.tile_style = "hopscotch" THEN tile_hopscotch(g, c)
                 ELSE IF c.tile_style = "stepping_stone" THEN tile_stepping_stone(g, c)
                 ELSE IF c.tile_style = "hexagon" THEN tile_hexagon(g, ok, c)
                 ELSE IF c.tile_style = "windmill" THEN tile_windmill(g, c)
                 ELSE g
        ELSE m0

-----------------------------------------------------------------------------
(* State.                                                                  *)

CurMesh == Mesh(vs, fs, ms, test_txt, <<1>>)

NoCube == [x |-> 0, y |-> 0, z |-> 0, w |-> 0, l |-> 0, t |-> 0, clip |-> FALSE]

\* the record of an operation: op names it, cube / shape / th / mat_id are its
\* arguments, pre the buffers it started from, raised whether it raised,
\* hung whether it never returns, and cells the parquet cells it laid
Called(op, cube, shape, th, mat_id, m) ==
    [op |-> op, cube |-> cube, shape |-> shape, th |-> th, mat_id |-> mat_id,
     pre |-> [vs |-> vs, fs |-> fs, ms |-> ms, txt |-> test_txt],
     raised |-> m.raised, hung |-> m.hung, cells |-> m.cells]

NoCalled ==
    [op |-> "none", cube |-> NoCube, shape |-> <<>>, th |-> 0, mat_id |-> 0,
     pre |-> [vs |-> <<>>, fs |-> <<>>, ms |-> <<>>, txt |-> <<>>],
     raised |-> FALSE, hung |-> FALSE, cells |-> <<>>]

\* the buffers take the values of m
Commit(m) ==
    /\ vs' = m.vs
    /\ fs' = m.fs
    /\ ms' = m.ms
    /\ test_txt' = m.txt

-----------------------------------------------------------------------------
(* Direct calls of the two builders.                                       *)

MaxCalls == 1
MaxPasses == 2
TapeLen == 2

\* the draws the pseudo-random source may hold
RandomTapes == [1..TapeLen -> {0, 1, 2}]

\* the draws a pass with the property values c may read: a pass that varies
\* nothing calls uniform nowhere
PassTapes(c) ==
    IF c.vary_thickness \/ c.vary_width \/ c.vary_length \/ c.random_offset THEN RandomTapes
    ELSE {[i \in 1..TapeLen |-> 1]}

\* how the float sums of a pass with the property values c may round: only a
\* pass of wood_regular that draws its board lengths has sums of drawn values
PassRoundings(c) ==
    IF c.floor_material = "wood" /\ c.wood_style = "regular" /\ c.vary_length THEN BOOLEAN
    ELSE {FALSE}

\* a generation pass: update() runs update_data on the instance's buffers
UpdateData ==
    \E rnd \in PassTapes(cfg), short \in PassRoundings(cfg) :
        LET m == update_data([Mesh(vs, fs, ms, test_txt, rnd) EXCEPT !.short = short],
                             disk_ok, cfg)
        IN  /\ passes < MaxPasses
            /\ ~last.hung
            /\ Commit(m)
            /\ last' = Called("update_data", NoCube, <<>>, 0, 0, m)
            /\ passes' = passes + 1
            /\ UNCHANGED <<cfg, disk_ok, calls>>

\* tile floors a caller may hold: the smallest floor and one wider than long
CallConfigs ==
    { [SmallFloor EXCEPT !.floor_material = "tile", !.width = wl[1], !.length = wl[2],
                         !.spacing = 32, !.offset = 50] :
        wl \in { <<2 * FOOT, 2 * FOOT>>, <<7000, 6500>> } }

\* origins before the floor, well inside it, near its far edge, and on its far
\* edge
CubeOrigins(far) == {-500, 1000, far - 500, far}

AddCube ==
    \E x \in CubeOrigins(cfg.width), y \in CubeOrigins(cfg.length),
       z \in {100}, w \in {800}, l \in {700}, t \in {154}, clip \in BOOLEAN, mat_id \in {1} :
        LET m == add_cube(CurMesh, cfg, x, y, z, w, l, t, clip, mat_id)
        IN  /\ calls < MaxCalls
            /\ ~last.hung
            /\ Commit(m)
            /\ last' = Called("add_cube",
                              [x |-> x, y |-> y, z |-> z, w |-> w, l |-> l, t |-> t,
                               clip |-> clip], <<>>, 0, mat_id, m)
            /\ calls' = calls + 1
            /\ UNCHANGED <<cfg, disk_ok, passes>>

\* corner lists of the candidate shapes a caller may pass, on a floor of the
\* given extent: none at all, boards inside the floor, a pointed hexagon, boards
\* cut by the far and by the near edge, and a board wholly outside
BoardOutlines(c) ==
    { <<>>,
      << <<1000, 1000>>, <<3000, 1000>>, <<3000, 2000>>, <<1000, 2000>> >>,
      << <<1000, 1000>>, <<3000, 1500>>, <<1500, 3000>> >>,
      << <<3866, 3500>>, <<3000, 4000>>, <<2134, 3500>>, <<2134, 2500>>, <<3000, 2000>>,
         <<3866, 2500>> >>,
      << <<c.width - 1000, 1000>>, <<c.width + 1000, 3000>>, <<c.width + 1000, 4000>>,
         <<c.width - 1000, 2000>> >>,
      << <<1000, -1000>>, <<2000, 0>>, <<2000, 1400>>, <<1000, 400>> >>,
      << <<c.width + 500, 1000>>, <<c.width + 1500, 1000>>, <<c.width + 1500, 2000>>,
         <<c.width + 500, 2000>> >> }

AddBoard ==
    \E outline \in BoardOutlines(cfg), th \in {254}, mat_id \in {1} :
        LET shape == IF outline = <<>> THEN <<>> ELSE line_segments_from_points(outline)
            m == add_board_from_boundaries(CurMesh, disk_ok, cfg, shape, th, mat_id)
        IN  /\ calls < MaxCalls
            /\ ~last.hung
            /\ Commit(m)
            /\ last' = Called("add_board_from_boundaries", NoCube, shape, th, mat_id, m)
            /\ calls' = calls + 1
            /\ UNCHANGED <<cfg, disk_ok, passes>>

InitCalls ==
    /\ cfg \in CallConfigs
    /\ vs = <<>>
    /\ fs = <<>>
    /\ ms = <<>>
    /\ test_txt = <<>>
    /\ disk_ok \in BOOLEAN
    /\ calls = 0
    /\ passes = 0
    /\ last = NoCalled

NextCalls == AddCube \/ AddBoard \/ UpdateData

SpecCalls == InitCalls /\ [][NextCalls]_vars

-----------------------------------------------------------------------------
(* Passes over a tile floor whose style is changed between them.           *)

\* the tile styles a caller switches between
CallStyles == {"regular", "hopscotch", "stepping_stone", "hexagon", "windmill"}

\* the tile style is set to another one: the property's update callback runs
\* update() and with it a generation pass
SetTileStyle ==
    \E st \in CallStyles \ {cfg.tile_style} :
        LET c == [cfg EXCEPT !.tile_style = st]
            m == update_data(CurMesh, disk_ok, c)
        IN  /\ passes < MaxPasses
            /\ ~last.hung
            /\ cfg' = c
            /\ Commit(m)
            /\ last' = Called("update_data", NoCube, <<>>, 0, 0, m)
            /\ passes' = passes + 1
            /\ UNCHANGED <<disk_ok, calls>>

NextStyles == UpdateData \/ SetTileStyle

SpecStyles == InitCalls /\ [][NextStyles]_vars

-----------------------------------------------------------------------------
(* Generation passes over floors of every material and style.              *)

\* <<width, length>>: the smallest floor and one wider than long
Floors == { <<2 * FOOT, 2 * FOOT>>, <<7000, 6500>> }

\* <<tile_width, tile_length, spacing>>
TileSizes == { <<FOOT, 8 * INCH, 32>>, <<2000, 3000, 0>> }

\* <<board_width, board_length, spacing>> of wood_regular
BoardSizes == { <<6 * INCH, 2 * FOOT, 0>>, <<2000, 3000, 40>> }

\* <<short_board_length, boards_in_group, spacing>> of wood_square_parquet
ParquetSizes == { <<6 * INCH, 2, 0>>, <<3000, 4, 40>> }

\* <<board_width, short_board_length, spacing>> of wood_herringbone and of
\* wood_herringbone_parquet
HerringboneSizes == { <<6 * INCH, 2 * FOOT, 0>>, <<2000, 3000, 40>> }
HerringboneParquetSizes == { <<2000, 4000, 0>>, <<1300, 2600, 0>> }

OnFloor(c, fl) == [c EXCEPT !.width = fl[1], !.length = fl[2]]

Tiled(st, fl, sz) ==
    [OnFloor(SmallFloor, fl) EXCEPT !.floor_material = "tile", !.tile_style = st,
                                    !.tile_width = sz[1], !.tile_length = sz[2],
                                    !.spacing = sz[3], !.offset = 50]

TileConfigs ==
    { Tiled(st, fl, sz) :
        st \in {"regular", "hopscotch", "stepping_stone", "hexagon", "windmill"},
        fl \in Floors, sz \in TileSizes }

\* patterned tiles of 0.2 m by 0.1 m with joints of 0.06 m, more than half the
\* tile length
WideJointTileConfigs ==
    { Tiled(st, <<2 * FOOT, 2 * FOOT>>, <<2000, 1000, 600>>) :
        st \in {"hopscotch", "stepping_stone", "windmill"} }

\* regular tiles with the offset left at 0, with and without spacing
UnshiftedTileConfigs ==
    { [Tiled("regular", <<2 * FOOT, 2 * FOOT>>, <<FOOT, 8 * INCH, sp>>) EXCEPT !.offset = 0] :
        sp \in {0, 32} }

WoodRegularConfigs ==
    { [OnFloor(SmallFloor, fl) EXCEPT !.board_width = sz[1], !.board_length = sz[2],
                                      !.width_spacing = sz[3], !.length_spacing = sz[3]] :
        fl \in Floors, sz \in BoardSizes }

ParquetConfigs ==
    { [OnFloor(SmallFloor, fl) EXCEPT !.wood_style = "square_parquet",
                                      !.short_board_length = sz[1], !.boards_in_group = sz[2],
                                      !.spacing = sz[3]] :
        fl \in Floors, sz \in ParquetSizes }

Herringbone(st, fl, sz) ==
    [OnFloor(SmallFloor, fl) EXCEPT !.wood_style = st, !.board_width = sz[1],
                                    !.short_board_length = sz[2], !.spacing = sz[3]]

HerringboneConfigs ==
    { Herringbone("herringbone", fl, sz) : fl \in Floors, sz \in HerringboneSizes }
        \cup { Herringbone("herringbone_parquet", fl, sz) :
                   fl \in Floors, sz \in HerringboneParquetSizes }

\* floors whose pass draws from the pseudo-random source
VariedConfigs ==
    { [Tiled("regular", <<7000, 6500>>, <<2000, 3000, 0>>) EXCEPT !.random_offset = TRUE],
      [Tiled("hopscotch", <<2 * FOOT, 2 * FOOT>>, <<FOOT, 8 * INCH, 32>>)
          EXCEPT !.vary_thickness = TRUE],
      [OnFloor(SmallFloor, <<7000, 6500>>) EXCEPT !.board_width = 2000, !.board_length = 3000,
                                                  !.vary_width = TRUE, !.vary_length = TRUE],
      [OnFloor(SmallFloor, <<2 * FOOT, 2 * FOOT>>) EXCEPT !.vary_length = TRUE,
                                                          !.max_boards = 1] }

\* regular tiles of 0.3 m on a floor of 1 m by 1 m, no spacing and no offset
MeterTileFloor ==
    [Tiled("regular", <<10000, 10000>>, <<3000, 3000, 0>>) EXCEPT !.offset = 0]

\* boards of 2 ft on a floor 8 ft long, their lengths drawn or not, at most 2
\* to a column when drawn
LongFloors ==
    { [OnFloor(SmallFloor, <<2 * FOOT, 8 * FOOT>>) EXCEPT !.vary_length = vl] : vl \in BOOLEAN }

\* boards of 0.15 m by 0.6 m on a floor of 1.2 m by 0.6 m, no spacing
PlankFloor ==
    [OnFloor(SmallFloor, <<12000, 6000>>) EXCEPT !.board_width = 1500, !.board_length = 6000]

\* square parquet of 8 boards to a group: the 7 spacings of 1 in between them
\* are more than the board length of 0.153 m
NarrowParquetFloor ==
    [OnFloor(SmallFloor, <<2 * FOOT, 2 * FOOT>>)
        EXCEPT !.wood_style = "square_parquet", !.short_board_length = 1530,
               !.boards_in_group = 8, !.spacing = INCH]

Configs ==
    TileConfigs \cup UnshiftedTileConfigs \cup WoodRegularConfigs \cup ParquetConfigs
        \cup HerringboneConfigs \cup VariedConfigs \cup WideJointTileConfigs
        \cup {MeterTileFloor, PlankFloor, NarrowParquetFloor} \cup LongFloors

Init ==
    /\ cfg \in Configs
    /\ vs = <<>>
    /\ fs = <<>>
    /\ ms = <<>>
    /\ test_txt = <<>>
    /\ disk_ok \in BOOLEAN
    /\ calls = 0
    /\ passes = 0
    /\ last = NoCalled

Next == UpdateData

Spec == Init /\ [][Next]_vars

-----------------------------------------------------------------------------
(* sort_corner_points on its own: the corner points of a convex polygon,   *)
(* handed over in some order, with a center strictly inside the polygon.   *)

MaxPermLen == 4
MaxCoord == 4

Cross(o, a, b) == (a[1] - o[1]) * (b[2] - o[2]) - (a[2] - o[2]) * (b[1] - o[1])

\* convex polygons, each listed counter-clockwise
SortPolygons ==
    { << <<2, 0>>, <<4, 2>>, <<2, 4>>, <<0, 2>> >>,
      << <<0, 0>>, <<4, 0>>, <<4, 4>>, <<0, 4>> >>,
      << <<0, 0>>, <<4, 0>>, <<2, 4>> >>,
      << <<2, 0>>, <<4, 1>>, <<4, 3>>, <<0, 3>>, <<0, 1>> >>,
      << <<2, 0>>, <<4, 1>>, <<4, 3>>, <<2, 4>>, <<0, 3>>, <<0, 1>> >> }

\* poly turns left at every corner and c lies strictly to the left of every
\* edge: poly is convex, counter-clockwise, and c is inside it
ConvexAround(poly, c) ==
    \A k \in 1..Len(poly) :
        LET a == poly[k]
            b == poly[(k % Len(poly)) + 1]
            d == poly[((k + 1) % Len(poly)) + 1]
        IN  Cross(a, b, d) > 0 /\ Cross(a, b, c) > 0

\* the orders in which the points may be handed over, as maps from position
\* to index into the polygon: all of them for a short polygon, else the
\* rotations and the reversed rotations
SortOrders(n) ==
    IF n <= MaxPermLen
    THEN {f \in [1..n -> 1..n] : \A i, j \in 1..n : f[i] = f[j] => i = j}
    ELSE {[k \in 1..n |-> ((k + r - 2) % n) + 1] : r \in 1..n}
         \cup {[k \in 1..n |-> ((r - k + n) % n) + 1] : r \in 1..n}

Rotations(poly) ==
    {[k \in 1..Len(poly) |-> poly[((k + r - 2) % Len(poly)) + 1]] : r \in 1..Len(poly)}

InitSort ==
    /\ cfg = SmallFloor
    /\ vs = <<>>
    /\ fs = <<>>
    /\ ms = <<>>
    /\ test_txt = <<>>
    /\ disk_ok = TRUE
    /\ calls = 0
    /\ passes = 0
    /\ \E poly \in SortPolygons, cx \in 1..(MaxCoord - 1), cy \in 1..(MaxCoord - 1) :
         \E order \in SortOrders(Len(poly)) :
            /\ ConvexAround(poly, <<cx, cy>>)
            /\ last = [op |-> "none", polygon |-> poly,
                       points |-> [k \in 1..Len(poly) |-> poly[order[k]]],
                       center |-> [x |-> cx, y |-> cy, den |-> 1], sorted |-> <<>>]

SortCornerPoints ==
    /\ last.op = "none"
    /\ last' = [last EXCEPT !.op = "sort_corner_points",
                            !.sorted = sort_corner_points(last.points, last.center)]
    /\ UNCHANGED <<cfg, vs, fs, ms, test_txt, disk_ok, calls, passes>>

NextSort == SortCornerPoints

SpecSort == InitSort /\ [][NextSort]_vars

-----------------------------------------------------------------------------
(* rough_comp on its own.  Values near the floor are counted in units of   *)
(* 0.0001 m, where SLOP is 10; values as far out as an intersection of two *)
(* nearly parallel boundary lines can lie are counted in millimetres,      *)
(* where SLOP is 1, so that they stay within the integers at hand.         *)

MaxDelta == 21
FarValue == 2100000000

\* <<slop, val2>>: the unit, given by what SLOP is in it, and the value
\* compared with
CompBases ==
    { <<SLOP, 0>>, <<SLOP, 2 * FOOT>>, <<SLOP, -30>>,
      <<1, 0>>, <<1, FarValue>>, <<1, -FarValue>> }

Comparisons == {EQUAL, NOT_EQUAL, LESS_EQUAL, GREATER_EQUAL, LESS, GREATER}

InitComp ==
    /\ cfg = SmallFloor
    /\ vs = <<>>
    /\ fs = <<>>
    /\ ms = <<>>
    /\ test_txt = <<>>
    /\ disk_ok = TRUE
    /\ calls = 0
    /\ passes = 0
    /\ \E base \in CompBases, d \in (-MaxDelta)..MaxDelta, comp \in Comparisons :
          last = [op |-> "none", slop |-> base[1], val1 |-> base[2] + d, val2 |-> base[2],
                  comp |-> comp, ret |-> FALSE]

RoughComp ==
    /\ last.op = "none"
    /\ last' = [last EXCEPT !.op = "rough_comp",
                            !.ret = rough_comp_in(last.slop, last.val1, last.val2, last.comp)]
    /\ UNCHANGED <<cfg, vs, fs, ms, test_txt, disk_ok, calls, passes>>

NextComp == RoughComp

SpecComp == InitComp /\ [][NextComp]_vars

-----------------------------------------------------------------------------
(* The quotients of the generator on their own, each formed from property  *)
(* values of the declared range or from points of a small grid.            *)

\* thickness_variance and offset are declared with min=0 and max=100
Percents == 0..100

DivPoints == (0..MaxCoord) \X (0..MaxCoord)

\* centers as points_center forms them: coordinate sums over a corner count
DivCenters == {[x |-> p[1], y |-> p[2], den |-> d] : p \in DivPoints, d \in {1, 3}}

\* the segments of a candidate shape: none, or those of an outline
DivShapes ==
    {<<>>} \cup {line_segments_from_points(o) : o \in BoardOutlines(SmallFloor) \ {<<>>}}

\* the divisions waiting to be made: the site and what it is handed
Divisions ==
    {[op |-> "none", site |-> "get_thickness", arg |-> p, ret |-> <<>>] : p \in Percents}
    \cup {[op |-> "none", site |-> "tile_regular", arg |-> p, ret |-> <<>>] : p \in Percents}
    \cup {[op |-> "none", site |-> "line_from_points", arg |-> <<pt1, pt2>>, ret |-> <<>>] :
              pt1 \in DivPoints, pt2 \in DivPoints}
    \cup {[op |-> "none", site |-> "sort_corner_points", arg |-> <<pt, center>>, ret |-> <<>>] :
              pt \in DivPoints, center \in DivCenters}
    \cup {[op |-> "none", site |-> "add_board_from_boundaries", arg |-> shape, ret |-> <<>>] :
              shape \in DivShapes}

InitDiv ==
    /\ cfg = SmallFloor
    /\ vs = <<>>
    /\ fs = <<>>
    /\ ms = <<>>
    /\ test_txt = <<>>
    /\ disk_ok = TRUE
    /\ calls = 0
    /\ passes = 0
    /\ last \in Divisions

\* the site of last forms its quotients qs
Divided(site, qs) ==
    /\ last.op = "none" /\ last.site = site
    /\ last' = [last EXCEPT !.op = "divide", !.ret = qs]
    /\ UNCHANGED <<cfg, vs, fs, ms, test_txt, disk_ok, calls, passes>>

\* off of get_thickness on a floor that varies its thickness
GetThickness ==
    Divided("get_thickness",
            <<get_thickness_off([cfg EXCEPT !.vary_thickness = TRUE,
                                            !.thickness_variance = last.arg])>>)

\* o of tile_regular
TileRegular ==
    Divided("tile_regular", <<tile_regular_o([cfg EXCEPT !.offset = last.arg])>>)

\* slope of line_from_points
LineFromPoints ==
    Divided("line_from_points", <<line_from_points_slope(last.arg[1], last.arg[2])>>)

\* the quotient sort_corner_points hands to atan for one point
SortCornerPoint ==
    Divided("sort_corner_points", <<corner_angle(last.arg[1], last.arg[2]).quot>>)

\* center of add_board_from_boundaries
ShapeCenter ==
    Divided("add_board_from_boundaries", shape_center_quotients(last.arg))

NextDiv == GetThickness \/ TileRegular \/ LineFromPoints \/ SortCornerPoint \/ ShapeCenter

SpecDiv == InitDiv /\ [][NextDiv]_vars

-----------------------------------------------------------------------------
(* What the last operation did to the buffers.                             *)

IsPrefix(a, b) == Len(a) <= Len(b) /\ SubSeq(b, 1, Len(a)) = a

BuffersUnchanged == vs = last.pre.vs /\ fs = last.pre.fs /\ ms = last.pre.ms

\* the elements the last operation appended to each buffer
NewVerts == SubSeq(vs, Len(last.pre.vs) + 1, Len(vs))
NewFaces == SubSeq(fs, Len(last.pre.fs) + 1, Len(fs))
NewMats  == SubSeq(ms, Len(last.pre.ms) + 1, Len(ms))

\* the last operation appended nv vertices, nf faces and nf material ids and
\* touched nothing that was there
Appended(nv, nf) ==
    /\ IsPrefix(last.pre.vs, vs) /\ Len(vs) = Len(last.pre.vs) + nv
    /\ IsPrefix(last.pre.fs, fs) /\ Len(fs) = Len(last.pre.fs) + nf
    /\ IsPrefix(last.pre.ms, ms) /\ Len(ms) = Len(last.pre.ms) + nf

Range(seq) == {seq[k] : k \in 1..Len(seq)}

CubeCall == last.op = "add_cube"
BoardCall == last.op = "add_board_from_boundaries"

\* the corner points that pass the filter of the last board call, whatever
\* becomes of the diagnostics file
Survivors == board_corners(last.pre.txt, TRUE, cfg, last.shape).out

-----------------------------------------------------------------------------
(* C3: add_cube with clip set and an origin outside [0,width) x            *)
(* [0,length), a negative x or y included, leaves the three buffers        *)
(* unchanged.  The code skips only an origin at or beyond the far edges.   *)

C3_OutsideOriginEmitsNothing ==
    (CubeCall /\ last.cube.clip
        /\ ~(0 <= last.cube.x /\ last.cube.x < cfg.width
             /\ 0 <= last.cube.y /\ last.cube.y < cfg.length))
    => BuffersUnchanged

\* C3 as amended: add_cube with clip set and x >= width or y >= length leaves
\* the three buffers unchanged
C3_FarOriginEmitsNothing ==
    (CubeCall /\ last.cube.clip
        /\ (last.cube.x >= cfg.width \/ last.cube.y >= cfg.length))
    => BuffersUnchanged

C3_Witness ==
    /\ CubeCall /\ last.cube.clip
    /\ last.cube.x = cfg.width /\ last.cube.y = 1000
    /\ Len(last.pre.vs) > 0
    /\ BuffersUnchanged

-----------------------------------------------------------------------------
(* C4: add_cube with clip set and an origin inside the floor emits a       *)
(* cuboid of x-extent min(w, width - x) and y-extent min(l, length - y).   *)

-----------------------------------------------------------------------------
(* C5: an add_cube call that is not skipped appends exactly the 8 corners  *)
(* of its box at z and z + t, 6 four-index faces over those 8 vertices     *)
(* and 6 material ids equal to mat_id.                                     *)

CubeSkipped ==
    last.cube.clip /\ (last.cube.x >= cfg.width \/ last.cube.y >= cfg.length)

C5_CubeAppends ==
    (CubeCall /\ ~CubeSkipped)
    => LET p  == Len(last.pre.vs)
           cu == last.cube
           xs == {v[1] : v \in Range(NewVerts)}
           ys == {v[2] : v \in Range(NewVerts)}
       IN  /\ Appended(8, 6)
           /\ Cardinality(xs) <= 2 /\ cu.x \in xs
           /\ Cardinality(ys) <= 2 /\ cu.y \in ys
           /\ Range(NewVerts) = {<<x, y, z>> : x \in xs, y \in ys, z \in {cu.z, cu.z + cu.t}}
           /\ \A k \in 1..6 : /\ Len(NewFaces[k]) = 4
                              /\ Range(NewFaces[k]) \subseteq p..(p + 7)
                              /\ NewMats[k] = last.mat_id

\* a cube added behind other geometry, with the non-default material id
C5_Witness ==
    /\ CubeCall /\ ~CubeSkipped
    /\ Len(last.pre.vs) > 0
    /\ last.mat_id = 1
    /\ Len(vs) = Len(last.pre.vs) + 8

-----------------------------------------------------------------------------
(* C6: the faces of each solid emitted by add_cube or                      *)
(* add_board_from_boundaries form a closed, consistently oriented surface: *)
(* every directed edge of a face occurs exactly once among the faces of    *)
(* the solid, and its reverse exactly once, in another face.               *)

\* the directed edges of a face, the closing one included
FaceEdges(face) ==
    {<<face[k], face[(k % Len(face)) + 1]>> : k \in 1..Len(face)}

\* the positions <<face, corner>> at which the directed edge e starts
EdgeUses(faces, e) ==
    {fk \in (1..Len(faces)) \X (1..8) :
        /\ fk[2] <= Len(faces[fk[1]])
        /\ faces[fk[1]][fk[2]] = e[1]
        /\ faces[fk[1]][(fk[2] % Len(faces[fk[1]])) + 1] = e[2]}

ClosedOriented(faces) ==
    \A f \in 1..Len(faces) : \A e \in FaceEdges(faces[f]) :
        /\ Cardinality(EdgeUses(faces, e)) = 1
        /\ Cardinality(EdgeUses(faces, <<e[2], e[1]>>)) = 1
        /\ \A u \in EdgeUses(faces, <<e[2], e[1]>>) : u[1] # f

-----------------------------------------------------------------------------
(* C7: sort_corner_points returns the corner points of a convex polygon in *)
(* counter-clockwise cyclic order around the center, wherever the points   *)
(* lie relative to it, a point straight below the center included.         *)

C7_SortedCounterClockwise ==
    last.op = "sort_corner_points" => last.sorted \in Rotations(last.polygon)

-----------------------------------------------------------------------------
(* C8: add_board_from_boundaries with fewer than 3 surviving corner points *)
(* returns without raising and leaves the three buffers unchanged.         *)

C8_FewCornersReturnsQuietly ==
    (BoardCall /\ Len(Survivors) < 3) => (~last.raised /\ BuffersUnchanged)

-----------------------------------------------------------------------------
(* C9: add_board_from_boundaries with n >= 3 surviving corner points       *)
(* appends 2n vertices, each point at z = 0 and at z = th, then n          *)
(* four-index side faces and two n-index caps, one over the z = 0          *)
(* vertices and one over the z = th vertices, listed in opposite           *)
(* directions, and n + 2 material ids equal to mat_id.                     *)

BoardExtruded(n) ==
    LET p == Len(last.pre.vs)
    IN  /\ Appended(2 * n, n + 2)
        /\ \A k \in 1..n : /\ NewVerts[2 * k - 1][3] = 0
                           /\ NewVerts[2 * k][3] = last.th
                           /\ <<NewVerts[2 * k - 1][1], NewVerts[2 * k - 1][2]>> \in Range(Survivors)
                           /\ <<NewVerts[2 * k][1], NewVerts[2 * k][2]>>
                                = <<NewVerts[2 * k - 1][1], NewVerts[2 * k - 1][2]>>
        /\ {<<NewVerts[2 * k][1], NewVerts[2 * k][2]>> : k \in 1..n} = Range(Survivors)
        /\ \A k \in 1..n : Len(NewFaces[k]) = 4
        /\ Len(NewFaces[n + 1]) = n /\ Len(NewFaces[n + 2]) = n
        /\ Range(NewFaces[n + 1]) = {p + 2 * (k - 1) : k \in 1..n}
        /\ Range(NewFaces[n + 2]) = {p + 2 * (k - 1) + 1 : k \in 1..n}
        \* opposite directions: cap one runs down the points, cap two up
        /\ \A k \in 1..n : NewFaces[n + 1][k] + 1 = NewFaces[n + 2][n + 1 - k]
        /\ \A k \in 1..(n + 2) : NewMats[k] = last.mat_id

C9_BoardAppends ==
    (BoardCall /\ Len(Survivors) >= 3) => BoardExtruded(Len(Survivors))

\* what holds of the calls that return: a board call that does not raise
\* and has n >= 3 surviving corner points appends as C9 says
BoardAppendsWhenReturned ==
    (BoardCall /\ ~last.raised /\ Len(Survivors) >= 3) => BoardExtruded(Len(Survivors))

-----------------------------------------------------------------------------
(* Generation passes.                                                      *)

PassDone == last.op = "update_data"

\* the vertices of a cuboid from (x, y, z) with extents w, l and t, in the
\* order add_cube appends them
CuboidVerts(x, y, z, w, l, t) ==
    << <<x, y, z>>, <<x, y, z + t>>, <<x + w, y, z>>, <<x + w, y, z + t>>,
       <<x, y + l, z>>, <<x, y + l, z + t>>, <<x + w, y + l, z>>, <<x + w, y + l, z + t>> >>

\* the first cuboid of the buffers is the one given, with material id mat_id
FirstCuboid(x, y, z, w, l, t, mat_id) ==
    /\ Len(vs) >= 8 /\ SubSeq(vs, 1, 8) = CuboidVerts(x, y, z, w, l, t)
    /\ Len(ms) >= 6 /\ \A k \in 1..6 : ms[k] = mat_id

\* C10 as stated: after a pass over a tile floor the grout slab covers
\* [0,width] x [0,length] from z = thickness - mortar_depth up to z = thickness.
\* The code lays it from z = 0.
C10_GroutOnTop ==
    (PassDone /\ cfg.floor_material = "tile")
        => FirstCuboid(0, 0, cfg.thickness - cfg.mortar_depth, cfg.width, cfg.length,
                       cfg.mortar_depth, 1)

\* C10, amended: after a pass over a tile floor the grout slab is the first
\* cuboid of the buffers, of material 1; it covers [0,width] x [0,length]
\* from z = 0 up to z = thickness - mortar_depth
C10_GroutFromBase ==
    (PassDone /\ cfg.floor_material = "tile")
        => FirstCuboid(0, 0, 0, cfg.width, cfg.length, cfg.thickness - cfg.mortar_depth, 1)

\* a returned pass over a tile floor that laid tiles on the grout
C10_Witness ==
    /\ PassDone /\ ~last.raised /\ ~last.hung
    /\ cfg.floor_material = "tile" /\ cfg.mortar_depth > 0
    /\ cfg.thickness - cfg.mortar_depth # cfg.mortar_depth
    /\ Len(vs) > 8

\* C1: whatever calls of add_cube, add_board_from_boundaries and update_data
\* were made, every face has at least 3 vertex indices, every index of every
\* face is below the length of the vertex buffer, and the material-id buffer
\* is as long as the face buffer
C1_BuffersConsistent ==
    /\ \A f \in 1..Len(fs) :
          /\ Len(fs[f]) >= 3
          /\ \A k \in 1..Len(fs[f]) : fs[f][k] >= 0 /\ fs[f][k] < Len(vs)
    /\ Len(ms) = Len(fs)

\* a board extruded behind the cuboids of an earlier pass
C1_Witness ==
    /\ BoardCall /\ ~last.raised
    /\ Len(last.pre.vs) > 8
    /\ Len(vs) >= Len(last.pre.vs) + 6
    /\ Len(fs) > Len(last.pre.fs)

\* C2: after a generation pass no vertex has x above width + SLOP or y above
\* length + SLOP
C2_VerticesWithinFloor ==
    PassDone => \A k \in 1..Len(vs) :
                    vs[k][1] <= cfg.width + SLOP /\ vs[k][2] <= cfg.length + SLOP

\* a returned pass of hexagon tiles: the grout cuboid reaches the far edges
\* and a prism behind it has a corner on the far x edge and one on the far y
\* edge
C2_Witness ==
    /\ PassDone /\ ~last.raised /\ ~last.hung
    /\ cfg.floor_material = "tile" /\ cfg.tile_style = "hexagon"
    /\ \E k \in 9..Len(vs) : vs[k][1] = cfg.width
    /\ \E k \in 9..Len(vs) : vs[k][2] = cfg.length

-----------------------------------------------------------------------------
(* C11: the pass over the tile floor of 1 m by 1 m with regular tiles of   *)
(* 0.3 m, spacing 0 and offset 0 returns with exactly 17 cuboids: the      *)
(* grout cuboid of material 1, then 4 rows of 4 tiles of material 0, the   *)
(* last column and the last row clipped to 0.1 m.  In the code the second  *)
(* row starts with a tile of width tile_width * 0 and never advances.      *)

\* the cuboid number n (from 1) of the vertex buffer
CuboidAt(n) == SubSeq(vs, 8 * n - 7, 8 * n)

C11_SeventeenCuboids ==
    (PassDone /\ cfg = MeterTileFloor)
    => /\ ~last.hung /\ ~last.raised
       /\ Len(vs) = 17 * 8 /\ Len(fs) = 17 * 6
       /\ ms = [k \in 1..(17 * 6) |-> IF k <= 6 THEN 1 ELSE 0]
       /\ \A row \in 0..3, col \in 0..3 :
             CuboidAt(2 + 4 * row + col)
                = CuboidVerts(3000 * col, 3000 * row, 0,
                              IF col = 3 THEN 1000 ELSE 3000,
                              IF row = 3 THEN 1000 ELSE 3000, cfg.thickness)

-----------------------------------------------------------------------------
(* C12: the pass over the wood floor of 1.2 m by 0.6 m with regular boards *)
(* of 0.15 m by 0.6 m, no variance and no spacing lays one row of boards,  *)
(* each a hexahedron of 8 vertices and 6 faces.                            *)

\* the buffers hold exactly n hexahedra: 8 vertices, 6 four-index faces over
\* those 8 vertices and 6 material ids each
Hexahedra(n) ==
    /\ Len(vs) = 8 * n /\ Len(fs) = 6 * n /\ Len(ms) = 6 * n
    /\ \A b \in 1..n : \A k \in (6 * b - 5)..(6 * b) :
          Len(fs[k]) = 4 /\ Range(fs[k]) \subseteq (8 * b - 8)..(8 * b - 1)

\* C12 as stated: the row totals exactly 4 boards.  The floor is 8 board
\* widths wide.
C12_FourBoards ==
    (PassDone /\ cfg = PlankFloor) => Hexahedra(4)

\* C12, amended: the pass returns with exactly 8 boards, one for each 0.15 m
\* of the width, each spanning the whole length of the floor, each a
\* hexahedron of 8 vertices and 6 faces
C12_EightBoards ==
    (PassDone /\ cfg = PlankFloor)
    => /\ ~last.hung /\ ~last.raised
       /\ Hexahedra(8)
       /\ \A b \in 1..8 :
             CuboidAt(b) = CuboidVerts(1500 * (b - 1), 0, 0, 1500, 6000, cfg.thickness)

\* the pass over that floor has returned and its last board ends in the far corner
C12_Witness ==
    /\ PassDone /\ cfg = PlankFloor /\ ~last.raised /\ ~last.hung
    /\ Len(vs) > 0 /\ vs[Len(vs)] = <<12000, 6000, cfg.thickness>>

-----------------------------------------------------------------------------
(* C13: in a pass of wood_regular with vary_length set no column gets more *)
(* than max_boards boards, and the max_boards-th board of a column ends at *)
(* y = length; with vary_length unset max_boards does not change what is   *)
(* laid.  In the code the board that fills the remainder has the length    *)
(* length - cur_y, and the float sum cur_y + (length - cur_y) can come out *)
(* below length, so that the loop lays one more board.                     *)

WoodRegularPass ==
    PassDone /\ cfg.floor_material = "wood" /\ cfg.wood_style = "regular"

\* the numbers of the cuboids whose origin has the x of cuboid n: its column
ColumnOf(n) == { b \in 1..(Len(vs) \div 8) : CuboidAt(b)[1][1] = CuboidAt(n)[1][1] }

\* the buffers of a pass from empty buffers with max_boards set to n
WithMaxBoards(n) ==
    update_data(Mesh(<<>>, <<>>, <<>>, last.pre.txt, <<1>>), disk_ok, [cfg EXCEPT !.max_boards = n])

C13_MaxBoardsPerColumn ==
    WoodRegularPass
    => /\ cfg.vary_length
          => \A n \in 1..(Len(vs) \div 8) :
                /\ Cardinality(ColumnOf(n)) <= cfg.max_boards
                /\ Cardinality({b \in ColumnOf(n) : b <= n}) = cfg.max_boards
                      => CuboidAt(n)[8][2] = cfg.length
       /\ ~cfg.vary_length /\ ~cfg.vary_width /\ ~cfg.vary_thickness
          => \A n \in 1..4 : vs = WithMaxBoards(n).vs /\ fs = WithMaxBoards(n).fs

-----------------------------------------------------------------------------
(* C14: a pass starts from empty buffers.  After update_data the buffers   *)
(* hold the geometry of that pass alone, whatever they held before: the    *)
(* cuboids and boards of direct calls, the geometry of an earlier pass, or *)
(* that of a pass in another style.  With no variance a pass made after a  *)
(* pass of the same property values therefore leaves the buffers as they   *)
(* were.                                                                   *)

NoVariance ==
    ~cfg.vary_thickness /\ ~cfg.vary_width /\ ~cfg.vary_length /\ ~cfg.random_offset

\* the pass with the current property values run on buffers that are empty
FreshPass == update_data(Mesh(<<>>, <<>>, <<>>, last.pre.txt, <<1>>), disk_ok, cfg)

C14_PassFromEmpty ==
    (PassDone /\ NoVariance)
    => /\ vs = FreshPass.vs /\ fs = FreshPass.fs /\ ms = FreshPass.ms
       /\ (last.pre.vs = FreshPass.vs /\ last.pre.fs = FreshPass.fs /\ last.pre.ms = FreshPass.ms)
             => BuffersUnchanged

\* a second pass, made in another style than the first, that returned: the
\* buffers before it held tiles of the first style and hold none of them now
C14_Witness ==
    /\ PassDone /\ NoVariance /\ ~last.raised /\ ~last.hung
    /\ passes = 2 /\ cfg.tile_style = "windmill"
    /\ Len(last.pre.vs) > 8 /\ Len(vs) > 8 /\ vs # last.pre.vs

-----------------------------------------------------------------------------
(* C15: when the filtering of a board's corner candidates meets a point    *)
(* outside [0,width] x [0,length], point_in_shape answers false and does   *)
(* nothing else: no exception, no write to a file.  The code opens         *)
(* 'D:/test.txt' for appending and writes the point to it.                 *)

\* the last board call met a candidate point outside the floor: with the
\* diagnostics file writable its filtering writes to the file
OutsideCandidateMet ==
    BoardCall /\ board_corners(last.pre.txt, TRUE, cfg, last.shape).txt # last.pre.txt

C15_OutsideRejectedSilently ==
    OutsideCandidateMet => ~last.raised /\ test_txt = last.pre.txt

-----------------------------------------------------------------------------
(* C16: rough_comp(a, b, EQUAL) holds exactly when |a - b| <= SLOP, and    *)
(* rough_comp(a, b, NOT_EQUAL) exactly when it does not; so                *)
(* rough_comp(x, x, EQUAL) holds and rough_comp(x, x + 2 SLOP, EQUAL) does *)
(* not, for every x.  The code asks math.isclose, which also accepts a     *)
(* difference of up to 1e-09 of the larger magnitude.                      *)

Compared(comp) == last.op = "rough_comp" /\ last.comp = comp

C16_EqualWithinSlop ==
    /\ Compared(EQUAL) => (last.ret <=> Abs(last.val1 - last.val2) <= last.slop)
    /\ Compared(NOT_EQUAL) => (last.ret <=> ~(Abs(last.val1 - last.val2) <= last.slop))

-----------------------------------------------------------------------------
(* C17: rough_comp(a, b, LESS_EQUAL) holds exactly when a <= b + SLOP and  *)
(* rough_comp(a, b, GREATER_EQUAL) exactly when a >= b - SLOP.             *)

C17_InclusiveWithinSlop ==
    /\ Compared(LESS_EQUAL) => (last.ret <=> last.val1 <= last.val2 + last.slop)
    /\ Compared(GREATER_EQUAL) => (last.ret <=> last.val1 >= last.val2 - last.slop)

\* both claims hold of values whose magnitude stays below 10^9 SLOP
ComparedNearby ==
    (last.op = "rough_comp" /\ Abs(last.val2) + MaxDelta < REL_TOL_INV)
    => (C16_EqualWithinSlop /\ C17_InclusiveWithinSlop)

-----------------------------------------------------------------------------
(* C18: the buffers are append-only.  Every add_cube and every            *)
(* add_board_from_boundaries call leaves what the three buffers held in    *)
(* place: the buffers before the call are prefixes of the buffers after    *)
(* it, so the indices of earlier faces name the same vertices as before.   *)

C18_AppendOnly ==
    (CubeCall \/ BoardCall)
    => /\ IsPrefix(last.pre.vs, vs) /\ IsPrefix(last.pre.fs, fs) /\ IsPrefix(last.pre.ms, ms)
       /\ \A f \in 1..Len(last.pre.fs) : \A k \in 1..Len(fs[f]) :
             vs[fs[f][k] + 1] = last.pre.vs[last.pre.fs[f][k] + 1]

\* a cuboid appended behind the geometry of a pass
C18_Witness ==
    /\ CubeCall
    /\ Len(last.pre.vs) > 8 /\ Len(last.pre.fs) > 6
    /\ Len(vs) = Len(last.pre.vs) + 8 /\ Len(fs) = Len(last.pre.fs) + 6

-----------------------------------------------------------------------------
(* C19: in the mesh of a pass over a tile floor exactly the first six      *)
(* faces, those of the grout slab, carry material id 1 and every other     *)
(* face carries material id 0; in the mesh of a pass over a wood floor     *)
(* every face carries material id 0.                                       *)

C19_GroutAloneHasIdOne ==
    PassDone
    => /\ cfg.floor_material = "tile"
          => /\ Len(ms) >= 6
             /\ \A k \in 1..Len(ms) : ms[k] = (IF k <= 6 THEN 1 ELSE 0)
       /\ cfg.floor_material = "wood" => \A k \in 1..Len(ms) : ms[k] = 0

\* a returned pass over a tile floor that laid cuboid tiles on the grout
C19_Witness ==
    /\ PassDone /\ ~last.raised /\ ~last.hung
    /\ cfg.floor_material = "tile" /\ cfg.tile_style = "windmill"
    /\ Len(ms) > 12 /\ ms[6] = 1 /\ ms[7] = 0

-----------------------------------------------------------------------------
(* C20: tile_regular terminates for all positive width, length, tile_width *)
(* and tile_length, spacing >= 0 and offset in 0..100 with random_offset   *)
(* off; the column cursor cur_x grows in every iteration of every row.  In *)
(* the code the first tile of every second row has the width tile_width *  *)
(* offset / 100, which is 0 for offset 0, and with spacing 0 the cursor    *)
(* stays at 0.                                                             *)

RegularTilePass ==
    /\ PassDone /\ cfg.floor_material = "tile" /\ cfg.tile_style = "regular"
    /\ ~cfg.random_offset
    /\ cfg.width > 0 /\ cfg.length > 0 /\ cfg.tile_width > 0 /\ cfg.tile_length > 0
    /\ cfg.spacing >= 0 /\ cfg.offset \in 0..100

C20_RegularTilesTerminate == RegularTilePass => ~last.hung

\* the passes of tile_regular return when the offset or the spacing is positive
RegularTilesTerminateWhenShifted ==
    (RegularTilePass /\ (cfg.offset > 0 \/ cfg.spacing > 0)) => ~last.hung

-----------------------------------------------------------------------------
(* C21: in wood_square_parquet the cells form a checkerboard.  Counting    *)
(* the columns of cells i = 0, 1, ... along x and the cells j = 0, 1, ...  *)
(* along y within a column, the boards of cell (i, j) are laid length-wise *)
(* (long side along y) exactly when i + j is even and width-wise           *)
(* otherwise, and every cell advances the column cursor cur_y by           *)
(* short_board_length + spacing whatever its orientation.  In the code a   *)
(* width-wise cell advances cur_y board by board and only for the boards   *)
(* that start below length, so a cell cut by the far edge advances it by   *)
(* less.                                                                   *)

ParquetPass ==
    PassDone /\ cfg.floor_material = "wood" /\ cfg.wood_style = "square_parquet"

\* i and j of the k-th cell of the log, by counting
CellColumn(k) == Cardinality({last.cells[n].cur_x : n \in 1..k}) - 1
CellRow(k) == Cardinality({n \in 1..(k - 1) : last.cells[n].cur_x = last.cells[k].cur_x})

\* the extents in x and in y of cuboid number b
ExtentX(b) == CuboidAt(b)[8][1] - CuboidAt(b)[1][1]
ExtentY(b) == CuboidAt(b)[8][2] - CuboidAt(b)[1][2]

\* cuboid b is a board of the nominal extents w by l, cut at the far edges
BoardOf(b, w, l) ==
    /\ ExtentX(b) = Min(w, cfg.width - CuboidAt(b)[1][1])
    /\ ExtentY(b) = Min(l, cfg.length - CuboidAt(b)[1][2])

\* the boards of the k-th cell stand side by side along x, long side along y
LaidLengthwise(k) ==
    /\ last.cells[k].first <= last.cells[k].last
    /\ \A b \in last.cells[k].first..last.cells[k].last :
          /\ BoardOf(b, parquet_board_width(cfg), cfg.short_board_length)
          /\ CuboidAt(b)[1][2] = last.cells[k].cur_y

\* the boards of the k-th cell are stacked along y, long side along x
LaidWidthwise(k) ==
    /\ last.cells[k].first <= last.cells[k].last
    /\ \A b \in last.cells[k].first..last.cells[k].last :
          /\ BoardOf(b, cfg.short_board_length, parquet_board_width(cfg))
          /\ CuboidAt(b)[1][1] = last.cells[k].cur_x

\* the k-th cell has the orientation of its place on the checkerboard
OnCheckerboard(k) ==
    /\ last.cells[k].orient_length <=> (CellColumn(k) + CellRow(k)) % 2 = 0
    /\ last.cells[k].orient_length => LaidLengthwise(k)
    /\ ~last.cells[k].orient_length => LaidWidthwise(k)

\* by how much the k-th cell advanced cur_y
CellAdvance(k) == last.cells[k].next_y - last.cells[k].cur_y

\* C21 as stated
C21_CheckerboardCells ==
    ParquetPass
    => \A k \in 1..Len(last.cells) :
          /\ OnCheckerboard(k)
          /\ CellAdvance(k) = cfg.short_board_length + cfg.spacing

\* the k-th cell is width-wise and its last board would start at or beyond
\* the far edge y = length
CutByFarEdge(k) ==
    /\ ~last.cells[k].orient_length
    /\ last.cells[k].cur_y
          + (cfg.boards_in_group - 1) * (parquet_board_width(cfg) + cfg.spacing) >= cfg.length

\* the number of boards of the k-th cell that start below length
BoardsBelowEdge(k) ==
    CHOOSE t \in 1..cfg.boards_in_group :
        /\ last.cells[k].cur_y + (t - 1) * (parquet_board_width(cfg) + cfg.spacing) < cfg.length
        /\ \/ t = cfg.boards_in_group
           \/ last.cells[k].cur_y + t * (parquet_board_width(cfg) + cfg.spacing) >= cfg.length

\* C21, amended: the cells form the checkerboard as stated, and every cell
\* advances cur_y by short_board_length + spacing but for a width-wise cell
\* whose last board would start at or beyond y = length: that cell advances
\* cur_y by board width + spacing for each of its boards that starts below
\* length, which leaves cur_y at or beyond length
C21_CheckerboardCellsToFarEdge ==
    ParquetPass
    => \A k \in 1..Len(last.cells) :
          /\ OnCheckerboard(k)
          /\ CellAdvance(k) =
                IF CutByFarEdge(k)
                THEN BoardsBelowEdge(k) * (parquet_board_width(cfg) + cfg.spacing)
                ELSE cfg.short_board_length + cfg.spacing
          /\ CutByFarEdge(k) => last.cells[k].next_y >= cfg.length

\* a returned pass that laid a width-wise cell in full, a width-wise cell cut
\* by the far edge, and length-wise cells in two columns
C21_Witness ==
    /\ ParquetPass /\ ~last.raised /\ ~last.hung
    /\ \E k \in 1..Len(last.cells) :
          ~last.cells[k].orient_length /\ ~CutByFarEdge(k) /\ CellRow(k) > 0
    /\ \E k \in 1..Len(last.cells) :
          CutByFarEdge(k) /\ CellAdvance(k) < cfg.short_board_length + cfg.spacing
    /\ \E k, n \in 1..Len(last.cells) :
          /\ last.cells[k].orient_length /\ last.cells[n].orient_length
          /\ CellColumn(k) # CellColumn(n)

-----------------------------------------------------------------------------
(* C22: no operation of the generator divides by zero for property values  *)
(* of the declared range.  offset = 0 in tile_regular, thickness_variance  *)
(* = 0 in get_thickness, a vertical pair of points in line_from_points, a  *)
(* corner point with the x of the center in sort_corner_points and a shape *)
(* of no segments in add_board_from_boundaries each take the guarded       *)
(* branch, which yields a value: 0 for the offset, the variance and the    *)
(* slope, radians(90) for the angle and (0, 0) for the center.             *)

DivisionAt(site) == last.op = "divide" /\ last.site = site

C22_NoDivisionByZero ==
    /\ last.op = "divide" => \A k \in 1..Len(last.ret) : ~last.ret[k].raises
    /\ (DivisionAt("get_thickness") /\ last.arg = 0) => last.ret = <<undivided(0)>>
    /\ (DivisionAt("tile_regular") /\ last.arg = 0) => last.ret = <<undivided(0)>>
    /\ (DivisionAt("line_from_points") /\ last.arg[1][1] = last.arg[2][1])
          => /\ last.ret = <<undivided(0)>>
             /\ \A x \in 0..MaxCoord :
                   line_from_points(last.arg[1], last.arg[2], x) = last.arg[1][2]
    /\ (DivisionAt("sort_corner_points")
           /\ last.arg[1][1] * last.arg[2].den = last.arg[2].x)
          => /\ last.ret = <<undivided(0)>>
             /\ corner_angle(last.arg[1], last.arg[2]).dx = 0
    /\ (DivisionAt("add_board_from_boundaries") /\ last.arg = <<>>)
          => /\ last.ret = <<undivided(0), undivided(0)>>
             /\ shape_center(last.arg) = <<0, 0>>

\* tile_regular has taken the guarded branch for offset = 0
C22_Witness ==
    /\ DivisionAt("tile_regular") /\ last.arg = 0
    /\ last.ret = <<undivided(0)>>

-----------------------------------------------------------------------------
(* C23: with property values of the declared range (tile and board sizes   *)
(* at or above their minimum, spacing >= 0, offset in 0..100,              *)
(* boards_in_group >= 1) and no variance, every cuboid that wood_regular,  *)
(* wood_square_parquet, tile_regular, tile_hopscotch, tile_stepping_stone  *)
(* and tile_windmill emit has a positive extent in x and in y.  In the     *)
(* code the first tile of every second row of tile_regular has the width   *)
(* tile_width * offset / 100, which is 0 for offset 0, and the boards of   *)
(* wood_square_parquet have the width (short_board_length -                *)
(* (boards_in_group - 1) * spacing) / boards_in_group, which is 0 or less  *)
(* when the spacings take up the board length.                             *)

\* the property values lie in the ranges their declarations give
WithinDeclaredBounds ==
    /\ cfg.width >= 2 * FOOT /\ cfg.length >= 2 * FOOT /\ cfg.spacing >= 0
    /\ cfg.width_spacing >= 0 /\ cfg.length_spacing >= 0
    /\ cfg.board_width >= 2 * INCH /\ cfg.board_length >= 2 * FOOT
    /\ cfg.short_board_length >= 6 * INCH /\ cfg.boards_in_group >= 1
    /\ cfg.tile_width >= 2 * INCH /\ cfg.tile_length >= 2 * INCH
    /\ cfg.offset \in 0..100

\* a pass of one of the six styles that lay cuboids alone, nothing varied
CuboidStylePass ==
    /\ PassDone /\ NoVariance /\ WithinDeclaredBounds
    /\ \/ cfg.floor_material = "wood" /\ cfg.wood_style \in {"regular", "square_parquet"}
       \/ cfg.floor_material = "tile"
             /\ cfg.tile_style \in {"regular", "hopscotch", "stepping_stone", "windmill"}

\* the numbers of the cuboids the style laid: on a tile floor the first
\* cuboid is the grout
StyleCuboids == (IF cfg.floor_material = "tile" THEN 2 ELSE 1)..(Len(vs) \div 8)

C23_PositiveExtents ==
    CuboidStylePass => \A b \in StyleCuboids : ExtentX(b) > 0 /\ ExtentY(b) > 0

\* the spacings leave room: the rows of regular tiles are shifted, the boards
\* of a parquet group are longer than the spacings between them, and the
\* spacing is below both tile extents
Roomy ==
    /\ (cfg.floor_material = "tile" /\ cfg.tile_style = "regular") => cfg.offset > 0
    /\ (cfg.floor_material = "wood" /\ cfg.wood_style = "square_parquet")
          => (cfg.boards_in_group - 1) * cfg.spacing < cfg.short_board_length
    /\ (cfg.floor_material = "tile" /\ cfg.tile_style # "regular")
          => cfg.spacing < Min(cfg.tile_width, cfg.tile_length)

\* the extents are positive where the spacings leave room
PositiveExtentsWhenRoomy ==
    (CuboidStylePass /\ Roomy) => \A b \in StyleCuboids : ExtentX(b) > 0 /\ ExtentY(b) > 0

-----------------------------------------------------------------------------
(* C24: in tile_windmill, tile_stepping_stone and tile_hopscotch, with     *)
(* 0 <= spacing < min(tile_width, tile_length) and no variance, no two     *)
(* tiles of a pass overlap: the xy-rectangles of any two distinct tile     *)
(* cuboids, as clipped, intersect in zero area, within one repeating unit  *)
(* as well as between neighbouring units and rows.                         *)

PatternedTilePass ==
    /\ PassDone /\ NoVariance /\ cfg.floor_material = "tile"
    /\ cfg.tile_style \in {"windmill", "stepping_stone", "hopscotch"}
    /\ 0 <= cfg.spacing /\ cfg.spacing < Min(cfg.tile_width, cfg.tile_length)

\* the least and the greatest x and y of cuboid b
Low(b, axis) == Min(vs[8 * b - 7][axis], vs[8 * b][axis])
High(b, axis) == Max(vs[8 * b - 7][axis], vs[8 * b][axis])

\* the xy-rectangles of the cuboids a and b share more than a boundary
Overlap(a, b) ==
    \A axis \in {1, 2} : Max(Low(a, axis), Low(b, axis)) < Min(High(a, axis), High(b, axis))

-----------------------------------------------------------------------------
(* C25: the strict comparisons of rough_comp are the complements of the    *)
(* inclusive ones: rough_comp(a, b, LESS) holds exactly when               *)
(* rough_comp(a, b, GREATER_EQUAL) does not, and rough_comp(a, b, GREATER) *)
(* exactly when rough_comp(a, b, LESS_EQUAL) does not; so                  *)
(* rough_comp(a, a, LESS) and rough_comp(a, a, GREATER) are false.  The    *)
(* code tests val1 < val2 - SLOP or val1 < val2 + SLOP for LESS, which is  *)
(* val1 < val2 + SLOP, and the like for GREATER.                           *)

C25_StrictComplementsInclusive ==
    /\ Compared(LESS)
          => (last.ret <=> ~rough_comp_in(last.slop, last.val1, last.val2, GREATER_EQUAL))
    /\ Compared(GREATER)
          => (last.ret <=> ~rough_comp_in(last.slop, last.val1, last.val2, LESS_EQUAL))
    /\ ((Compared(LESS) \/ Compared(GREATER)) /\ last.val1 = last.val2) => ~last.ret

\* what the strict comparisons answer: LESS holds below val2 + SLOP and
\* GREATER above val2 - SLOP, so that both hold within SLOP of val2
StrictReachesAcrossSlop ==
    /\ Compared(LESS) => (last.ret <=> last.val1 < last.val2 + last.slop)
    /\ Compared(GREATER) => (last.ret <=> last.val1 > last.val2 - last.slop)

====
